---- MODULE Spec2Model ----
(***************************************************************************)
(* Content rotation and publish orchestration of instalaz (runner.py,      *)
(* app.py).  Strings that the code takes apart (file names, URLs, state    *)
(* prefixes, schedule_times) are sequences of tokens, so that quoting,     *)
(* splitting and parsing are computed and not assumed.                     *)
(***************************************************************************)
EXTENDS Integers, Sequences, FiniteSets, TLC

\* ------------------------------------------------------------------ bounds
MaxImages == 2          \* max_images of the carousel accounts
MaxVideos == 1          \* max_images of the reel account
SlidesPerPost == 2      \* slides_per_post of the carousel accounts
MaxLines == 2           \* longest caption list fetch_lines returns
MaxCaptionIndex == 2    \* cap on the unbounded caption counter
MaxSelected == 1        \* longest images list of a publish payload
MaxPointer == 10        \* largest stored pointer drawn in SelInit
MaxCatalog == 10        \* largest max_images drawn in SelInit
MaxCount == 3           \* largest slides_per_post drawn in SelInit
MaxCalls == 3           \* consecutive selector calls explored in SelSpec
MaxDay == 1             \* last day the scheduler clock reaches (from day 0)
MaxPage == 2             \* largest page of a preview request
MaxPageSize == 1         \* largest page_size of a preview request (from -1)
MaxPreviews == 2         \* preview requests explored in one behaviour
MaxAttempts == 2        \* attempt cap of wait_until_ready (max_attempts, 600
                        \* in the code), shortened
MaxProbes == 2          \* probes of one get_random_candidate call explored
                        \* (the code stops at max_check_attempts)
MaxPushes == 2          \* push_state_bg threads started in one behaviour

\* -------------------------------------------------------- program constants
max_check_attempts == 50

VARIABLES
    accounts,           \* accounts.json: sequence of account configs
    caption_idx,        \* {prefix}_caption.json  last_index, 0 when absent
    image_idx,          \* {prefix}_image.json    last_index, 0 when absent
    image_used,         \* {prefix}_image_used.json  used
    video_used,         \* {prefix}_video_used.json  used
    status,             \* {prefix}_status.json
    run,                \* the run in progress (locals of run_account /
                        \* background_publish_task and its position)
    pre,                \* rotation state read when the run was launched
    clock,              \* the wall clock in IST (day, hour, minute)
    now,                \* run_schedule_loop local: the clock read by the
                        \* latest pass of the loop
    global_times,       \* run_schedule_loop local: get_global_times_list()
                        \* of the latest pass
    last_triggers,      \* run_schedule_loop local: name -> minute of day
    schedule_settings,  \* schedule_settings.json
    launched,           \* threads started by the scheduler loop, in order
    present,            \* the rotation state files that exist, per prefix
    mirror,             \* the JsonBin document and the push threads started
    view,               \* the latest /preview or /trigger-schedule response
    parked              \* a second thread, while it is not the one stepping

vars == <<accounts, caption_idx, image_idx, image_used, video_used, status,
          run, pre, clock, now, global_times, last_triggers,
          schedule_settings, launched, present, mirror, view, parked>>

rotVars == <<caption_idx, image_idx, image_used, video_used>>
schedVars == <<clock, now, global_times, last_triggers, schedule_settings,
               launched>>
webVars == <<present, mirror, view, parked>>

\* ------------------------------------------------------------- token strings
Max(S) == CHOOSE x \in S : \A y \in S : y <= x

\* str.rstrip("/")
RStripSlash(s) ==
    LET keep == {k \in 0..Len(s) : \A j \in (k+1)..Len(s) : s[j] = "/"}
    IN  SubSeq(s, 1, CHOOSE k \in keep : \A j \in keep : k <= j)

_norm_base(url) == RStripSlash(url)

\* urllib.parse.quote(fn, safe="()"): the space is percent-encoded, letters,
\* digits, '.', '(' and ')' are kept.
quote(fn) == [k \in DOMAIN fn |-> IF fn[k] = " " THEN "%20" ELSE fn[k]]

\* u.split("/")[-1]
LastSegment(u) ==
    LET cuts == {k \in DOMAIN u : u[k] = "/"}
    IN  IF cuts = {} THEN u ELSE SubSeq(u, Max(cuts) + 1, Len(u))

\* f"{base}/{encoded}"
JoinUrl(base, encoded) == base \o <<"/">> \o encoded

\* "ruthless" in prefix.lower()
IsRuthless(prefix) == \E k \in DOMAIN prefix : prefix[k] = "ruthless"

\* ------------------------------------------------------------------ catalog
_image_name_for(i) == <<"img", " ", "(", ToString(i), ")", ".jpg">>

VideoName(i) == IF i = 0 THEN <<"vid", ".mp4">>
                ELSE <<"vid", " ", "(", ToString(i), ")", ".mp4">>

ImageCatalog(cfg) == {_image_name_for(i) : i \in 1..cfg.max_images}
VideoCatalogSeq(cfg) == [k \in 1..(cfg.max_images + 1) |-> VideoName(k - 1)]
VideoCatalog(cfg) == {VideoCatalogSeq(cfg)[k] : k \in 1..(cfg.max_images + 1)}

\* re.search(r"\((\d+)\)", name): the number between the parentheses, else 1
ParenIndex(name) ==
    LET hits == {k \in DOMAIN name : k > 1 /\ k < Len(name)
                    /\ name[k-1] = "(" /\ name[k+1] = ")"
                    /\ \E n \in 0..MaxCatalog : ToString(n) = name[k]}
    IN  IF hits = {} THEN 1
        ELSE CHOOSE n \in 0..MaxCatalog :
                ToString(n) = name[CHOOSE k \in hits : \A j \in hits : k <= j]

RuthlessName(i) == <<"img", "%20", "(", ToString(i), ")", ".jpg">>

\* URL construction of get_random_candidate
ImageUrl(cfg, name) ==
    IF IsRuthless(cfg.state_prefix)
    THEN JoinUrl(_norm_base(cfg.base_url), RuthlessName(ParenIndex(name)))
    ELSE JoinUrl(_norm_base(cfg.base_url), quote(name))

VideoUrl(cfg, name) == JoinUrl(_norm_base(cfg.video_base_url), quote(name))

\* ----------------------------------------------------------------- accounts
\* schedule_times is the raw string split at ',' and each part at ':'; a field
\* is a number int() accepts (ok) or something it rejects.
Num(n) == [ok |-> TRUE, val |-> n]
Junk == [ok |-> FALSE, val |-> 0]
NoTimes == << >>

CarouselCfg ==
    [name |-> "pracandy", state_prefix |-> <<"pracandy", "_a">>,
     type |-> "carousel",
     base_url |-> <<"https:", "/", "/", "cdn", "/", "a", "/">>,
     video_base_url |-> << >>,
     slides_per_post |-> SlidesPerPost, max_images |-> MaxImages,
     schedule_enabled |-> "on", schedule_times |-> NoTimes]

RuthlessCfg ==
    [name |-> "ruthless", state_prefix |-> <<"ruthless", "_b">>,
     type |-> "carousel",
     base_url |-> <<"https:", "/", "/", "cdn", "/", "b">>,
     video_base_url |-> << >>,
     slides_per_post |-> 1, max_images |-> MaxImages,
     schedule_enabled |-> "on", schedule_times |-> NoTimes]

ReelCfg ==
    [name |-> "reels", state_prefix |-> <<"reels", "_c">>,
     type |-> "reel",
     base_url |-> << >>,
     video_base_url |-> <<"https:", "/", "/", "cdn", "/", "v">>,
     slides_per_post |-> 1, max_images |-> MaxVideos,
     schedule_enabled |-> "on", schedule_times |-> NoTimes]

\* the deployments the pipeline is explored for: one account each
AccountFiles == {<<CarouselCfg>>, <<RuthlessCfg>>, <<ReelCfg>>}

Prefixes == {CarouselCfg.state_prefix, RuthlessCfg.state_prefix,
             ReelCfg.state_prefix}

\* --------------------------------------------------------------- state store
load_last_index(prefix, key) ==
    IF key = "caption" THEN caption_idx[prefix] ELSE image_idx[prefix]

image_used_list(prefix) == image_used[prefix]
load_used_list(prefix) == video_used[prefix]

RotationOf(prefix) ==
    [caption_index |-> caption_idx[prefix], image_index |-> image_idx[prefix],
     image_used |-> image_used[prefix], video_used |-> video_used[prefix]]

NoRotation ==
    [caption_index |-> 0, image_index |-> 0, image_used |-> {}, video_used |-> {}]

\* the files {prefix}_caption.json, _image.json, _image_used.json and
\* _video_used.json, by the variable that holds their content
StateFiles == {"caption_idx", "image_idx", "image_used", "video_used"}

\* load_remote_state(prefix): None, or the snapshot stored under the prefix
NoSnapshot ==
    [found |-> FALSE, video_used |-> {}, image_used |-> {}, caption_idx |-> 0,
     image_idx |-> 0]

\* a snapshot that leaves the two pointers out
get_used_lists_only(prefix) ==
    [found |-> TRUE, video_used |-> video_used[prefix],
     image_used |-> image_used[prefix], caption_idx |-> 0, image_idx |-> 0]

\* get_full_local_state(prefix)
get_full_local_state(prefix) ==
    [found |-> TRUE, video_used |-> video_used[prefix],
     image_used |-> image_used[prefix], caption_idx |-> caption_idx[prefix],
     image_idx |-> image_idx[prefix]]

\* the local store of a prefix: the content of its files and which exist
Local(prefix) ==
    [caption_idx |-> caption_idx[prefix], image_idx |-> image_idx[prefix],
     image_used |-> image_used[prefix], video_used |-> video_used[prefix],
     present |-> present[prefix]]

\* the store of a prefix none of whose files exists
EmptyStore ==
    [caption_idx |-> 0, image_idx |-> 0, image_used |-> {}, video_used |-> {},
     present |-> {}]

\* a write that falls back to empty files when load_remote_state answers None
restore_or_reset(st, remote) ==
    IF "video_used" \in st.present \/ "image_used" \in st.present THEN st
    ELSE [caption_idx |-> remote.caption_idx, image_idx |-> remote.image_idx,
          image_used |-> remote.image_used, video_used |-> remote.video_used,
          present |-> StateFiles]

\* restore_from_remote_if_needed(prefix) on the store st when
\* load_remote_state answers remote; the four saves are made with sync=False
restore_from_remote_if_needed(st, remote) ==
    IF "video_used" \in st.present \/ "image_used" \in st.present THEN st
    ELSE IF ~remote.found THEN st
    ELSE [caption_idx |-> remote.caption_idx, image_idx |-> remote.image_idx,
          image_used |-> remote.image_used, video_used |-> remote.video_used,
          present |-> StateFiles]

\* the first lines of load_last_index / load_used_list / image_used_list: a
\* missing file calls restore_from_remote_if_needed
Loaded(st, key, remote) ==
    IF key \in st.present THEN st ELSE restore_from_remote_if_needed(st, remote)

\* the value the load returns: the content of the file, the default without it
ValueOf(st, key) ==
    IF key \in st.present THEN st[key]
    ELSE IF key \in {"caption_idx", "image_idx"} THEN 0 ELSE {}

\* what load_remote_state(prefix) can answer: None (no JSONBIN_KEY, a failed
\* request, no entry for the prefix) or the entry of the prefix
Answers(prefix) ==
    IF mirror.configured THEN {NoSnapshot, mirror.doc[prefix]} ELSE {NoSnapshot}

\* the files of the prefix become the store st
Store(prefix, st) ==
    /\ caption_idx' = [caption_idx EXCEPT ![prefix] = st.caption_idx]
    /\ image_idx' = [image_idx EXCEPT ![prefix] = st.image_idx]
    /\ image_used' = [image_used EXCEPT ![prefix] = st.image_used]
    /\ video_used' = [video_used EXCEPT ![prefix] = st.video_used]
    /\ present' = [present EXCEPT ![prefix] = st.present]

\* save_last_index / save_used_list / save_image_used_list with sync=True
\* wrote the files: they exist, and a push_state_bg thread is started per
\* save (a thread that returns at once when no mirror is configured).
\* mirror.pushes[prefix] tells whether threads of the prefix are still to run
Saved(prefix, files) ==
    /\ present' = [present EXCEPT ![prefix] = @ \cup files]
    /\ mirror' = IF mirror.configured
                 THEN [mirror EXCEPT !.pushes[prefix] = @ \/ files # {}]
                 ELSE mirror

save_status_one_file(prefix, st, message) ==
    status' = [p \in Prefixes |-> [status |-> st, message |-> message]]
save_status(prefix, st, message) ==
    status' = [status EXCEPT ![prefix] = [status |-> st, message |-> message]]

\* ---------------------------------------------------------------- selectors
\* fetch_lines: the K non-empty lines of the caption file, in order
Lines(K) == [j \in 1..K |-> "line" \o ToString(j - 1)]

\* next_caption: the caption returned and the index stored
CaptionAtOffByOne(idx, K) == Lines(K)[((idx + 1) % K) + 1]
CaptionAt(idx, K) == Lines(K)[(idx % K) + 1]
NextCaptionIndexKept(idx) == idx
NextCaptionIndex(idx) == idx + 1

\* peek_then_commit_caption: "" for an empty list
PeekCaption(idx, K) == IF K = 0 THEN "" ELSE Lines(K)[(idx % K) + 1]

\* next_images: the virtual indices, the URLs and the pointer stored
NextImageIndexUnreduced(last, i, max_images) == last + i
NextImageIndex(last, i, max_images) == ((last + i - 1) % max_images) + 1

SequentialName(cfg, img_index) ==
    IF IsRuthless(cfg.state_prefix) THEN RuthlessName(img_index)
    ELSE quote(_image_name_for(img_index))

next_images(cfg, last) ==
    [i \in 1..cfg.slides_per_post |->
        JoinUrl(_norm_base(cfg.base_url),
                SequentialName(cfg, NextImageIndex(last, i, cfg.max_images)))]

NextImagePointerOffByOne(last, count, max_images) ==
    ((last + count) % max_images) + 1
NextImagePointer(last, count, max_images) ==
    ((last + count - 1) % max_images) + 1

\* a shim that takes the last unused file of the catalog
VideoCandidatesLast(cfg, used) ==
    LET all_files == VideoCatalogSeq(cfg)
        ordered == SelectSeq(all_files, LAMBDA f : f \notin used)
    IN  IF Len(ordered) = 0 THEN << >>
        ELSE <<VideoUrl(cfg, ordered[Len(ordered)])>>

\* video_candidates(cfg, page=1, page_size=1, include_used=False): the items
VideoCandidatesFirst(cfg, used) ==
    LET all_files == VideoCatalogSeq(cfg)
        ordered == SelectSeq(all_files, LAMBDA f : f \notin used)
    IN  IF Len(ordered) = 0 THEN << >>
        ELSE <<VideoUrl(cfg, ordered[1])>>

\* get_random_candidate: catalog, filter, reset, probe loop
CatalogOf(cfg, kind) ==
    IF kind = "image" THEN ImageCatalog(cfg) ELSE VideoCatalog(cfg)

UsedOf(prefix, kind) ==
    IF kind = "image" THEN image_used_list(prefix) ELSE load_used_list(prefix)

Unused(cfg, kind) == CatalogOf(cfg, kind) \ UsedOf(cfg.state_prefix, kind)

\* a reset made while one item is still unused
NeedsResetEarly(cfg, kind) == Cardinality(Unused(cfg, kind)) <= 1
\* get_random_candidate: `if not unused`
NeedsReset(cfg, kind) == Unused(cfg, kind) = {}

Pool(cfg, kind) ==
    IF NeedsReset(cfg, kind) THEN CatalogOf(cfg, kind) ELSE Unused(cfg, kind)

\* the used-set on disk when get_random_candidate returns cand (a 0- or
\* 1-element sequence): emptied by the exhaustion reset, else as it was; the
\* candidate itself is not recorded at selection time
MarkAtSelection(cfg, kind, cand) ==
    (IF NeedsReset(cfg, kind) THEN {} ELSE UsedOf(cfg.state_prefix, kind))
    \cup {cand[k].filename : k \in DOMAIN cand}
PersistedBySelection(cfg, kind, cand) ==
    IF NeedsReset(cfg, kind) THEN {} ELSE UsedOf(cfg.state_prefix, kind)

CandidateUrl(cfg, kind, name) ==
    IF kind = "image" THEN ImageUrl(cfg, name) ELSE VideoUrl(cfg, name)

\* the candidates the probe loop can return, as a set of 0- or 1-element
\* sequences: exists is the set of pool items whose HEAD request answers 200
\* during this call; random.choice may try them in any order, a failed one is
\* removed, and the loop gives up after max_check_attempts probes.
ProbeOutcomes(cfg, kind, pool, exists) ==
    {<<[url |-> CandidateUrl(cfg, kind, x), filename |-> x]>> : x \in exists}
    \cup (IF exists = {} \/ Cardinality(pool \ exists) >= max_check_attempts
          THEN {<< >>} ELSE {})

\* the urls as drawn, repeats kept
KeepRepeats(s) == s
\* list(dict.fromkeys(urls))
RECURSIVE Dedupe(_)
Dedupe(s) ==
    IF s = << >> THEN << >>
    ELSE LET front == Dedupe(SubSeq(s, 1, Len(s) - 1))
             x == s[Len(s)]
         IN  IF \E k \in DOMAIN front : front[k] = x THEN front
             ELSE Append(front, x)

\* mark_images_used / mark_video_used: the set written
MarkedImages(used, selected_urls) ==
    used \cup {LastSegment(selected_urls[k]) : k \in DOMAIN selected_urls}

MarkedVideo(used, selected_filename) ==
    used \cup {LastSegment(selected_filename)}

\* ------------------------------------------------------------------ the run
Idle ==
    [pc |-> "idle", task |-> "none", acct |-> 0, mode |-> "none",
     imgs |-> << >>, vid |-> << >>, cap |-> "", lines |-> 0,
     caption |-> "", draws |-> 0, resets |-> 0, child_ids |-> << >>, cid |-> 0,
     creation_id |-> 0, media_id |-> 0, failed |-> "none",
     polls |-> 0,           \* attempts consumed by the wait_until_ready in progress
     finished |-> {},       \* container ids that reported FINISHED
     api |-> 0,             \* upload, create, publish and comment calls issued
     comment |-> "none",    \* post_comment: none, skipped, posted or failed
     permalink |-> "",      \* fetch_permalink: "" when it failed
     error |-> "",          \* str(e) of the exception caught
     notes |-> [success |-> 0, failure |-> 0]]   \* notifications attempted

Cfg == accounts[run.acct]
Prefix == accounts[run.acct].state_prefix

RotInit ==
    /\ caption_idx = [p \in Prefixes |-> 0]
    /\ image_idx = [p \in Prefixes |-> 0]
    /\ image_used = [p \in Prefixes |-> {}]
    /\ video_used = [p \in Prefixes |-> {}]
    /\ status = [p \in Prefixes |-> [status |-> "never", message |-> ""]]
    /\ run = Idle
    /\ pre = NoRotation

\* load_schedule_times(): the defaults, used while no settings file exists
DefaultSchedule ==
    [enabled |-> TRUE,
     morning |-> [hour |-> 7, minute |-> 30],
     afternoon |-> [hour |-> 15, minute |-> 0],
     evening |-> [hour |-> 18, minute |-> 30],
     night |-> [hour |-> 23, minute |-> 0]]

\* get_global_times_list()
get_global_times_list(config) ==
    IF ~config.enabled THEN << >>
    ELSE <<config.morning, config.afternoon, config.evening, config.night>>

Midnight == [day |-> 0, hour |-> 0, minute |-> 0]

SchedIdle ==
    /\ clock = Midnight
    /\ now = Midnight
    /\ global_times = get_global_times_list(DefaultSchedule)
    /\ last_triggers = << >>
    /\ schedule_settings = DefaultSchedule
    /\ launched = << >>

\* no request or second thread in progress
NoView == [n |-> 0, acct |-> 0, caption |-> "", items |-> << >>,
           has_more |-> FALSE, total_items |-> 0]
NoThread == [run |-> Idle, pre |-> NoRotation]

\* JSONBIN_KEY / JSONBIN_ID are not set
NoMirror ==
    [configured |-> FALSE, doc |-> [p \in Prefixes |-> NoSnapshot],
     pushes |-> [p \in Prefixes |-> FALSE]]

\* a new deployment without a mirror: no state file exists yet
WebIdle ==
    /\ present = [p \in Prefixes |-> {}]
    /\ mirror = NoMirror
    /\ view = NoView
    /\ parked = NoThread

Init ==
    /\ accounts \in AccountFiles
    /\ RotInit
    /\ SchedIdle
    /\ WebIdle

\* run_account(cfg, mode) entered on a new thread: run_now starts it in manual
\* mode, the scheduler and trigger_scheduled_posts in schedule mode.
StartRunAccountUnmarked(a, mode) ==
    /\ run.pc = "idle"
    /\ caption_idx[accounts[a].state_prefix] < MaxCaptionIndex
    /\ run' = [Idle EXCEPT !.pc = "select", !.task = "run_account",
                           !.acct = a, !.mode = mode]
    /\ pre' = RotationOf(accounts[a].state_prefix)
    /\ UNCHANGED <<accounts, rotVars, status, schedVars, webVars>>
StartRunAccount(a, mode) ==
    /\ run.pc = "idle"
    /\ caption_idx[accounts[a].state_prefix] < MaxCaptionIndex
    /\ run' = [Idle EXCEPT !.pc = "select", !.task = "run_account",
                           !.acct = a, !.mode = mode]
    /\ pre' = RotationOf(accounts[a].state_prefix)
    /\ save_status(accounts[a].state_prefix, "running",
                   IF accounts[a].type = "carousel"
                   THEN "Starting automation" ELSE "Selecting video...")
    /\ UNCHANGED <<accounts, rotVars, schedVars, webVars>>

RunNow(a) == StartRunAccount(a, "manual")
ScheduledRun(a) == StartRunAccount(a, "schedule")

\* the except handler of run_account / background_publish_task
\* an exception with message text raised at step where is caught: error status
\* with str(e), one notify_publish_failure, return
\* (calls is 1 when the call that failed was issued to the Graph API)
RaiseSilently(where, text, calls) ==
    /\ run' = [run EXCEPT !.pc = "done", !.failed = where, !.error = text,
                          !.api = @ + calls]
    /\ UNCHANGED status
Raise(where, text, calls) ==
    /\ run' = [run EXCEPT !.pc = "done", !.failed = where, !.error = text,
                          !.notes.failure = @ + 1, !.api = @ + calls]
    /\ save_status(Prefix, "error", text)

RaiseAt(where) == Raise(where, where, 0)

\* one pass of `for _ in range(count): cand = get_random_candidate(cfg, "image")`
DrawRandomImage ==
    /\ run.pc = "select" /\ run.task = "run_account"
    /\ Cfg.type = "carousel" /\ run.mode = "schedule"
    /\ run.draws < Cfg.slides_per_post
    /\ LET pool == Pool(Cfg, "image") IN
       \E exists \in SUBSET pool :
       \E cand \in ProbeOutcomes(Cfg, "image", pool, exists) :
          /\ image_used' = [image_used EXCEPT ![Prefix] =
                               PersistedBySelection(Cfg, "image", cand)]
          /\ run' = [run EXCEPT
                        !.draws = @ + 1,
                        !.resets = @ + (IF NeedsReset(Cfg, "image") THEN 1 ELSE 0),
                        !.imgs = IF cand = << >> THEN @
                                 ELSE Append(@, cand[1].url)]
    /\ UNCHANGED <<accounts, caption_idx, image_idx, video_used, status, pre,
                   schedVars, view, parked>>
    /\ Saved(Prefix, IF NeedsReset(Cfg, "image") THEN {"image_used"} ELSE {})

\* after the loop: list(dict.fromkeys(selected_urls)), empty check
FinishDraws ==
    /\ run.pc = "select" /\ run.task = "run_account"
    /\ Cfg.type = "carousel" /\ run.mode = "schedule"
    /\ run.draws = Cfg.slides_per_post
    /\ IF Dedupe(run.imgs) = << >>
       THEN RaiseAt("No random images available.")
       ELSE /\ run' = [run EXCEPT !.pc = "caption", !.imgs = Dedupe(@)]
            /\ UNCHANGED status
    /\ UNCHANGED <<accounts, rotVars, pre, schedVars, webVars>>

\* imgs = next_images(cfg)
SelectSequentialImages ==
    /\ run.pc = "select" /\ run.task = "run_account"
    /\ Cfg.type = "carousel" /\ run.mode = "manual"
    /\ LET last == load_last_index(Prefix, "image") IN
       /\ run' = [run EXCEPT !.pc = "caption", !.imgs = next_images(Cfg, last)]
       /\ image_idx' = [image_idx EXCEPT ![Prefix] =
                           NextImagePointer(last, Cfg.slides_per_post,
                                            Cfg.max_images)]
    /\ UNCHANGED <<accounts, caption_idx, image_used, video_used, status, pre,
                   schedVars, view, parked>>
    /\ Saved(Prefix, {"image_idx"})

\* cand = get_random_candidate(cfg, "video")
SelectRandomVideo ==
    /\ run.pc = "select" /\ run.task = "run_account"
    /\ Cfg.type = "reel" /\ run.mode = "schedule"
    /\ LET pool == Pool(Cfg, "video") IN
       \E exists \in SUBSET pool :
       \E cand \in ProbeOutcomes(Cfg, "video", pool, exists) :
          /\ video_used' = [video_used EXCEPT ![Prefix] =
                               PersistedBySelection(Cfg, "video", cand)]
          /\ IF cand = << >>
             THEN /\ run' = [run EXCEPT !.pc = "done",
                                !.failed = "No content available",
                                !.error = "No content available",
                                !.notes.failure = @ + 1,
                                !.resets = @ + (IF NeedsReset(Cfg, "video")
                                                THEN 1 ELSE 0)]
                  /\ save_status(Prefix, "error", "No content available")
             ELSE /\ run' = [run EXCEPT !.pc = "caption", !.vid = cand[1].url,
                                !.resets = @ + (IF NeedsReset(Cfg, "video")
                                                THEN 1 ELSE 0)]
                  /\ UNCHANGED status
    /\ UNCHANGED <<accounts, caption_idx, image_idx, image_used, pre, schedVars, view, parked>>
    /\ Saved(Prefix, IF NeedsReset(Cfg, "video") THEN {"video_used"} ELSE {})

\* vid_cand = next_video_shim(cfg), with the manual-mode auto-reset
SelectManualVideo ==
    /\ run.pc = "select" /\ run.task = "run_account"
    /\ Cfg.type = "reel" /\ run.mode = "manual"
    /\ LET first == VideoCandidatesFirst(Cfg, load_used_list(Prefix))
           again == VideoCandidatesFirst(Cfg, {})
       IN  IF first # << >>
           THEN /\ run' = [run EXCEPT !.pc = "caption", !.vid = first[1]]
                /\ UNCHANGED <<video_used, status>>
           ELSE /\ video_used' = [video_used EXCEPT ![Prefix] = {}]
                /\ IF again # << >>
                   THEN /\ run' = [run EXCEPT !.pc = "caption",
                                      !.vid = again[1], !.resets = @ + 1]
                        /\ UNCHANGED status
                   ELSE RaiseAt("No content available")
    /\ UNCHANGED <<accounts, caption_idx, image_idx, image_used, pre, schedVars, view, parked>>
    /\ Saved(Prefix, IF VideoCandidatesFirst(Cfg, load_used_list(Prefix)) = << >>
                     THEN {"video_used"} ELSE {})

\* ---------------------------------------------------------- publish request
\* the URLs a publish payload carries: the URLs the preview lists (quoted) and,
\* for a video, also the same location written unquoted
PayloadUrls(cfg) ==
    IF cfg.type = "carousel"
    THEN {JoinUrl(_norm_base(cfg.base_url), quote(n)) : n \in ImageCatalog(cfg)}
    ELSE {JoinUrl(_norm_base(cfg.video_base_url), n) : n \in VideoCatalog(cfg)}
         \cup {VideoUrl(cfg, n) : n \in VideoCatalog(cfg)}

SeqsUpTo(S, n) == UNION {[1..k -> S] : k \in 0..n}

Payloads(cfg) ==
    IF cfg.type = "carousel"
    THEN [images : SeqsUpTo(PayloadUrls(cfg), MaxSelected), video : {<< >>},
          caption : {"", "custom"}]
    ELSE [images : {<< >>}, video : PayloadUrls(cfg) \cup {<< >>},
          caption : {"", "custom"}]

\* publish(idx): validation, then background_publish_task on a new thread,
\* which first marks the account running
Publish(a, payload) ==
    /\ run.pc = "idle"
    /\ caption_idx[accounts[a].state_prefix] < MaxCaptionIndex
    /\ IF accounts[a].type = "reel" /\ payload.video = << >>
       THEN UNCHANGED <<run, pre, status>>
       ELSE /\ run' = [Idle EXCEPT !.pc = "start", !.task = "publish_selected",
                                   !.acct = a, !.mode = "manual",
                                   !.imgs = payload.images,
                                   !.vid = payload.video,
                                   !.caption = payload.caption]
            /\ pre' = RotationOf(accounts[a].state_prefix)
            /\ save_status(accounts[a].state_prefix, "running",
                           "Processing in background...")
    /\ UNCHANGED <<accounts, rotVars, schedVars, webVars>>

\* publish_selected_carousel / publish_selected_reel entered
StartPublishSelected ==
    /\ run.pc = "start"
    /\ IF Cfg.type = "carousel"
       THEN IF run.imgs = << >>
            THEN RaiseAt("No slides selected")
            ELSE /\ run' = [run EXCEPT !.pc = "upload"]
                 /\ UNCHANGED status
       ELSE /\ run' = [run EXCEPT !.pc = "caption"]
            /\ UNCHANGED status
    /\ UNCHANGED <<accounts, rotVars, pre, schedVars, webVars>>

\* ------------------------------------------------------------ pipeline steps
Total == IF Cfg.type = "carousel" THEN Len(run.imgs) ELSE 1

AfterCaption ==
    IF run.task = "publish_selected" /\ Cfg.type = "carousel"
    THEN "assemble" ELSE "upload"

\* a loop that leaves after the first image
AfterVerifyFirstOnly ==
    IF Cfg.type = "reel" THEN "publish"
    ELSE IF run.task = "publish_selected" THEN "caption" ELSE "assemble"
AfterVerify ==
    IF Cfg.type = "reel" THEN "publish"
    ELSE IF Len(run.child_ids) + 1 < Total THEN "upload"
    ELSE IF run.task = "publish_selected" THEN "caption" ELSE "assemble"

\* cap = next_caption(cfg)
NextCaption ==
    /\ run.pc = "caption" /\ run.task = "run_account"
    /\ caption_idx[Prefix] < MaxCaptionIndex
    /\ \E K \in 1..MaxLines :
        LET idx == load_last_index(Prefix, "caption") IN
        /\ run' = [run EXCEPT !.pc = AfterCaption, !.lines = K,
                              !.cap = CaptionAt(idx, K)]
        /\ caption_idx' = [caption_idx EXCEPT ![Prefix] =
                              NextCaptionIndex(idx)]
    /\ UNCHANGED <<accounts, image_idx, image_used, video_used, status, pre,
                   schedVars, view, parked>>
    /\ Saved(Prefix, {"caption_idx"})

\* cap = caption or peek_then_commit_caption(cfg)
SelectedCaption ==
    /\ run.pc = "caption" /\ run.task = "publish_selected"
    /\ IF run.caption # ""
       THEN /\ run' = [run EXCEPT !.pc = AfterCaption, !.cap = run.caption]
            /\ UNCHANGED caption_idx
       ELSE /\ caption_idx[Prefix] < MaxCaptionIndex
            /\ \E K \in 0..MaxLines :
                LET idx == load_last_index(Prefix, "caption") IN
                /\ run' = [run EXCEPT !.pc = AfterCaption, !.lines = K,
                                      !.cap = PeekCaption(idx, K)]
                /\ caption_idx' = [caption_idx EXCEPT ![Prefix] = idx + 1]
    /\ UNCHANGED <<accounts, image_idx, image_used, video_used, status, pre,
                   schedVars, view, parked>>
    /\ Saved(Prefix, IF run.caption # "" THEN {} ELSE {"caption_idx"})

\* upload_image / upload_reel / the POST of publish_selected_carousel returned
\* a container id
Upload ==
    /\ run.pc = "upload"
    /\ run' = [run EXCEPT !.pc = "verify", !.cid = Len(run.child_ids) + 1,
                          !.polls = 0, !.api = @ + 1]
    /\ save_status(Prefix, "running", "Verifying...")
    /\ UNCHANGED <<accounts, rotVars, pre, schedVars, webVars>>

\* wait_until_ready: `for i in range(max_attempts)` has attempts left
AttemptsLeftInclusive(polls) == polls <= MaxAttempts
AttemptsLeft(polls) == polls < MaxAttempts

\* the attempts consumed after one more poll that brought no verdict
AfterPollWrapped(polls) == (polls + 1) % MaxAttempts
AfterPoll(polls) == polls + 1

\* wait_until_ready: a poll failed in transport or returned a status that is
\* neither FINISHED nor ERROR; sleep, next attempt
Poll ==
    /\ run.pc \in {"verify", "assemble_verify"}
    /\ AttemptsLeft(run.polls)
    /\ run' = [run EXCEPT !.polls = AfterPoll(@)]
    /\ UNCHANGED <<accounts, rotVars, status, pre, schedVars, webVars>>

\* wait_until_ready(cid, token): a poll returned FINISHED
Verify ==
    /\ run.pc = "verify"
    /\ AttemptsLeft(run.polls)
    /\ run' = [run EXCEPT !.pc = AfterVerify,
                          !.finished = @ \cup {run.cid},
                          !.child_ids = IF Cfg.type = "carousel"
                                        THEN Append(@, run.cid) ELSE @,
                          !.creation_id = IF Cfg.type = "reel"
                                          THEN run.cid ELSE @]
    /\ save_status(Prefix, "running",
                   IF AfterVerify = "upload" THEN "Uploading..."
                   ELSE IF AfterVerify = "assemble" THEN "Creating carousel..."
                   ELSE IF AfterVerify = "publish" THEN "Publishing reel..."
                   ELSE "Verifying...")
    /\ UNCHANGED <<accounts, rotVars, pre, schedVars, webVars>>

\* create_carousel(child_ids, cap, cfg) returned an id
Assemble ==
    /\ run.pc = "assemble"
    /\ run' = [run EXCEPT !.pc = IF run.task = "publish_selected"
                                 THEN "assemble_verify" ELSE "publish",
                          !.creation_id = Len(run.child_ids) + 1,
                          !.polls = 0, !.api = @ + 1]
    /\ save_status(Prefix, "running",
                   IF run.task = "publish_selected" THEN "Processing carousel..."
                   ELSE "Publishing carousel...")
    /\ UNCHANGED <<accounts, rotVars, pre, schedVars, webVars>>

\* publish_selected_carousel: wait_until_ready(creation_id, token): a poll
\* returned FINISHED
AssembleVerify ==
    /\ run.pc = "assemble_verify"
    /\ AttemptsLeft(run.polls)
    /\ run' = [run EXCEPT !.pc = "publish",
                          !.finished = @ \cup {run.creation_id}]
    /\ save_status(Prefix, "running", "Publishing to Instagram...")
    /\ UNCHANGED <<accounts, rotVars, pre, schedVars, webVars>>

\* publish_creation(creation_id, cfg) returned a media id
PublishCreation ==
    /\ run.pc = "publish"
    /\ run' = [run EXCEPT !.pc = "finish", !.media_id = run.creation_id + 1,
                          !.api = @ + 1]
    /\ UNCHANGED <<accounts, rotVars, status, pre, schedVars, webVars>>

\* whether the success path marks the selection used
MarksAlways == TRUE
Marks == run.task = "publish_selected" \/ run.mode = "schedule"

\* the outcomes of post_comment: run_account always has a first comment, a
\* publish request may carry none
CommentOutcomes ==
    IF run.task = "run_account" THEN {"posted", "failed"}
    ELSE {"skipped", "posted", "failed"}

\* {permalink or '(not available)'}
PermalinkTextRaw(permalink) == permalink
PermalinkText(permalink) ==
    IF permalink = "" THEN "(not available)" ELSE permalink

\* post_comment, fetch_permalink (neither raises), marking, success status,
\* notify_publish_success
Finish ==
    /\ run.pc = "finish"
    /\ image_used' =
         IF Marks /\ Cfg.type = "carousel"
         THEN [image_used EXCEPT ![Prefix] =
                  MarkedImages(image_used_list(Prefix), run.imgs)]
         ELSE image_used
    /\ video_used' =
         IF Marks /\ Cfg.type = "reel"
         THEN [video_used EXCEPT ![Prefix] =
                  MarkedVideo(load_used_list(Prefix), run.vid)]
         ELSE video_used
    /\ \E comment \in CommentOutcomes : \E permalink \in {"", "https://ig/p/1"} :
        /\ run' = [run EXCEPT !.pc = "done", !.comment = comment,
                              !.permalink = permalink,
                              !.api = @ + (IF comment = "skipped" THEN 0 ELSE 1),
                              !.notes.success = @ + 1]
        /\ save_status(Prefix, "success",
                       "published " \o PermalinkText(permalink))
    /\ UNCHANGED <<accounts, caption_idx, image_idx, pre, schedVars, view, parked>>
    /\ Saved(Prefix, IF ~Marks THEN {}
                     ELSE IF Cfg.type = "carousel" THEN {"image_used"}
                     ELSE {"video_used"})

\* the external call of the current step raised (transport failure, upstream
\* rejection, container ERROR or never ready, no id returned, empty caption
\* list): the except handler stores the error status
FailingSteps ==
    {"caption", "upload", "verify", "assemble", "assemble_verify", "publish"}

\* str(e): wait_until_ready that ran out of attempts ends in `return False,
\* last_resp` with last_resp never assigned, a NameError
ErrorText(where) ==
    IF where \in {"verify", "assemble_verify"}
    THEN IF AttemptsLeft(run.polls) THEN "failed readiness"
         ELSE "name 'last_resp' is not defined"
    ELSE IF where = "upload" THEN "Instagram API Error"
    ELSE IF where = "assemble" THEN "Carousel container creation error"
    ELSE IF where = "publish" THEN "media_publish error"
    ELSE "Failed to fetch caption_url"

StepFails ==
    /\ run.pc \in FailingSteps
    /\ ~(run.pc = "caption" /\ run.task = "publish_selected" /\ run.caption # "")
    /\ Raise(run.pc, ErrorText(run.pc),
             IF run.pc \in {"upload", "assemble", "publish"} THEN 1 ELSE 0)
    /\ UNCHANGED <<accounts, rotVars, pre, schedVars, webVars>>

\* the thread of the run ends
Return ==
    /\ run.pc = "done"
    /\ run' = Idle
    /\ pre' = NoRotation
    /\ UNCHANGED <<accounts, rotVars, status, schedVars, webVars>>

Next ==
    \/ \E a \in DOMAIN accounts : RunNow(a)
    \/ \E a \in DOMAIN accounts : ScheduledRun(a)
    \/ \E a \in DOMAIN accounts : \E payload \in Payloads(accounts[a]) :
          Publish(a, payload)
    \/ StartPublishSelected
    \/ DrawRandomImage
    \/ FinishDraws
    \/ SelectSequentialImages
    \/ SelectRandomVideo
    \/ SelectManualVideo
    \/ NextCaption
    \/ SelectedCaption
    \/ Upload
    \/ Poll
    \/ Verify
    \/ Assemble
    \/ AssembleVerify
    \/ PublishCreation
    \/ Finish
    \/ StepFails
    \/ Return

Spec == Init /\ [][Next]_vars

\* ------------------------------------------------------------------- claims
Kind == IF Cfg.type = "carousel" THEN "image" ELSE "video"

\* the catalog items a run_account run in schedule mode selected, recovered
\* from the URLs it kept
SelectedItems ==
    {x \in CatalogOf(Cfg, Kind) :
        IF Cfg.type = "carousel"
        THEN \E k \in DOMAIN run.imgs : run.imgs[k] = CandidateUrl(Cfg, Kind, x)
        ELSE run.vid = CandidateUrl(Cfg, Kind, x)}

ScheduleSuccess ==
    /\ run.pc = "done" /\ run.task = "run_account"
    /\ run.mode = "schedule" /\ run.failed = "none"

\* C1: a run_account run that ends in error because an upload, verification,
\* assembly or publish step failed leaves the rotation state of its account
\* equal to the value it had before the run.
C1_FailedRunKeepsRotation ==
    (/\ run.pc = "done" /\ run.task = "run_account"
     /\ run.failed \in {"upload", "verify", "assemble", "publish"})
    => RotationOf(Prefix) = pre

\* C2: a used-set gains a filename only in a step of a run whose publish call
\* has returned a media id, and that step ends the run in success; a run that
\* ended in error has added nothing to either used-set.
AddsToUsed(p) ==
    \/ ~(image_used'[p] \subseteq image_used[p])
    \/ ~(video_used'[p] \subseteq video_used[p])

C2_ErrorRunAddsNothing ==
    (run.pc = "done" /\ run.failed # "none")
    => /\ image_used[Prefix] \subseteq pre.image_used
       /\ video_used[Prefix] \subseteq pre.video_used

\* C2: error runs add nothing to a used-set, and a used-set grows only in the
\* step that follows a returned media id and stores success.
C2_MarkOnlyAfterPublish ==
    /\ []C2_ErrorRunAddsNothing
    /\ [][\A p \in Prefixes :
            AddsToUsed(p) => /\ run.media_id # 0
                             /\ run'.pc = "done" /\ run'.failed = "none"
                             /\ p = Prefix
                             /\ status'[p].status = "success"]_vars

C2_Witness ==
    /\ run.pc = "done" /\ run.failed = "none" /\ run.media_id # 0
    /\ \/ ~(image_used[Prefix] \subseteq pre.image_used)
       \/ ~(video_used[Prefix] \subseteq pre.video_used)

\* C3: once a successful schedule-mode run has selected and marked its items,
\* the random-unused selector no longer has them among its unused candidates
\* (until an exhaustion reset), so a later run cannot select them again.
C3_SelectedLeaveUnusedPool ==
    ScheduleSuccess => SelectedItems \cap Unused(Cfg, Kind) = {}

\* C4: after the marking step of a successful schedule-mode run the persisted
\* used-set is the used-set persisted before marking united with the catalog
\* filenames of the items the run selected, and nothing else.
UsedBeforeMarking ==
    IF run.resets > 0 THEN {}
    ELSE IF Kind = "image" THEN pre.image_used ELSE pre.video_used

\* C4: after marking, used-set = used-set before marking united with the
\* catalog filenames of the selected items.
C4_MarkIsUnionWithSelected ==
    ScheduleSuccess
    => UsedOf(Prefix, Kind) = UsedBeforeMarking \cup SelectedItems

\* C5: a selection on a fully exhausted used-set persists the empty used-set
\* and picks from the whole catalog; after the run has succeeded and marked,
\* the persisted used-set is exactly the chosen filenames.
Exhausted ==
    CatalogOf(Cfg, Kind) \subseteq
        (IF Kind = "image" THEN pre.image_used ELSE pre.video_used)

\* C5: after a run that started on an exhausted used-set has succeeded and
\* marked, the used-set is exactly the set of chosen filenames.
C5_ResetThenOnlyChosen ==
    (ScheduleSuccess /\ Exhausted)
    => /\ run.resets = 1
       /\ UsedOf(Prefix, Kind) = SelectedItems

\* ------------------------------------------------- sequential selectors alone
\* next_images and next_caption called repeatedly for one account: the
\* configuration, the stored pointer and the caption list are drawn in SelInit.
SelConfigs ==
    {[base EXCEPT !.max_images = K, !.slides_per_post = c] :
        base \in {CarouselCfg, RuthlessCfg}, K \in 1..MaxCatalog,
        c \in 0..MaxCount}

SelInit ==
    /\ accounts \in {<<cfg>> : cfg \in SelConfigs}
    /\ \E p \in 0..MaxPointer, K \in 1..MaxLines, which \in {"images", "captions"} :
        /\ IF which = "images"
           THEN /\ image_idx = [q \in Prefixes |->
                                 IF q = accounts[1].state_prefix THEN p ELSE 0]
                /\ caption_idx = [q \in Prefixes |-> 0]
                /\ run = [Idle EXCEPT !.pc = "images", !.acct = 1]
           ELSE /\ accounts[1] = [CarouselCfg EXCEPT !.max_images = 1,
                                                      !.slides_per_post = 0]
                /\ image_idx = [q \in Prefixes |-> 0]
                /\ caption_idx = [q \in Prefixes |->
                                   IF q = accounts[1].state_prefix THEN p ELSE 0]
                /\ run = [Idle EXCEPT !.pc = "captions", !.acct = 1, !.lines = K]
    /\ image_used = [q \in Prefixes |-> {}]
    /\ video_used = [q \in Prefixes |-> {}]
    /\ status = [q \in Prefixes |-> [status |-> "never", message |-> ""]]
    /\ pre = [NoRotation EXCEPT
                !.image_index = image_idx[accounts[1].state_prefix],
                !.caption_index = caption_idx[accounts[1].state_prefix]]
    /\ SchedIdle
    /\ present = [q \in Prefixes |->
                    IF q = accounts[1].state_prefix
                    THEN {"caption_idx", "image_idx"} ELSE {}]
    /\ mirror = NoMirror
    /\ view = NoView
    /\ parked = NoThread

\* urls = next_images(cfg); draws counts the calls made
CallNextImages ==
    /\ run.pc = "images"
    /\ run.draws < MaxCalls
    /\ LET last == load_last_index(Prefix, "image") IN
       /\ run' = [run EXCEPT !.imgs = next_images(Cfg, last), !.draws = @ + 1]
       /\ image_idx' = [image_idx EXCEPT ![Prefix] =
                           NextImagePointer(last, Cfg.slides_per_post,
                                            Cfg.max_images)]
    /\ UNCHANGED <<accounts, caption_idx, image_used, video_used, status, pre,
                   schedVars, view, parked>>
    /\ Saved(Prefix, {"image_idx"})

\* caption = next_caption(cfg) on a caption list of run.lines lines
CallNextCaption ==
    /\ run.pc = "captions"
    /\ run.draws < MaxCalls
    /\ LET idx == load_last_index(Prefix, "caption") IN
       /\ run' = [run EXCEPT !.cap = CaptionAt(idx, run.lines), !.draws = @ + 1]
       /\ caption_idx' = [caption_idx EXCEPT ![Prefix] = NextCaptionIndex(idx)]
    /\ UNCHANGED <<accounts, image_idx, image_used, video_used, status, pre,
                   schedVars, view, parked>>
    /\ Saved(Prefix, {"caption_idx"})

SelNext == CallNextImages \/ CallNextCaption

SelSpec == SelInit /\ [][SelNext]_vars

\* the virtual index an image URL addresses
UrlIndex(url) == ParenIndex(LastSegment(url))

CyclicSuccessor(x, K) == IF x >= K THEN 1 ELSE x + 1

\* C6: next_images with stored pointer p, slides_per_post c and max_images K
\* returns c URLs whose virtual indices are ((p+i-1) mod K)+1: the first is
\* the entry just after the pointer, each next one the cyclic successor of the
\* one before (K wraps to 1), the stored pointer is congruent to p+c modulo K,
\* and the first image of a call is the cyclic successor of the last image of
\* the call before it.
C6_Step ==
    run.pc = "images" =>
      LET p == image_idx[Prefix]
          c == Cfg.slides_per_post
          K == Cfg.max_images
          out == run'.imgs
      IN  /\ Len(out) = c
          /\ \A i \in 1..c :
               /\ UrlIndex(out[i]) = ((p + i - 1) % K) + 1
               /\ UrlIndex(out[i]) \in 1..K
               /\ out[i] = JoinUrl(_norm_base(Cfg.base_url),
                                   quote(_image_name_for(UrlIndex(out[i]))))
          /\ c >= 1 => UrlIndex(out[1]) = CyclicSuccessor(p % K, K)
          /\ \A i \in 1..(c - 1) :
               UrlIndex(out[i + 1]) = CyclicSuccessor(UrlIndex(out[i]), K)
          /\ image_idx'[Prefix] % K = (p + c) % K
          /\ (c >= 1 /\ run.imgs # << >>) =>
               UrlIndex(out[1]) =
                   CyclicSuccessor(UrlIndex(run.imgs[Len(run.imgs)]), K)

\* C6: every next_images call returns the cyclic run of indices after the
\* stored pointer and stores a pointer congruent to p+c modulo K.
C6_SequentialImages == [][C6_Step]_vars

\* the example of the specification: p = 8, c = 2, K = 10 returns 9 and 10
C6_Witness ==
    /\ run.pc = "images" /\ run.draws = 1
    /\ Cfg.max_images = 10 /\ Cfg.slides_per_post = 2 /\ pre.image_index = 8
    /\ Len(run.imgs) = 2
    /\ UrlIndex(run.imgs[1]) = 9 /\ UrlIndex(run.imgs[2]) = 10
    /\ image_idx[Prefix] % 10 = 0

\* C7 (as amended): over a caption list of K lines with stored caption_index
\* start, the N-th consecutive next_caption call selects the line at index
\* (start+N-1) mod K, and after N calls the stored caption_index is start+N
\* itself, which is congruent to (start+N) mod K but not reduced.
C7_CaptionSequence ==
    run.pc = "captions" =>
      LET start == pre.caption_index
          N == run.draws
          K == run.lines
      IN  /\ caption_idx[Prefix] = start + N
          /\ caption_idx[Prefix] % K = (start + N) % K
          /\ N >= 1 => run.cap = Lines(K)[((start + N - 1) % K) + 1]

\* C7 as claimed: after N calls the stored caption_index equals (start+N) mod K
C7_StoredIndexIsReduced ==
    (run.pc = "captions" /\ run.draws >= 1)
    => caption_idx[Prefix] = (pre.caption_index + run.draws) % run.lines

C7_Witness ==
    /\ run.pc = "captions" /\ run.draws = MaxCalls /\ run.lines = 2
    /\ pre.caption_index = 1
    /\ caption_idx[Prefix] = 1 + MaxCalls
    /\ run.cap = Lines(2)[((MaxCalls) % 2) + 1]

\* ---------------------------------------------------------------- scheduler
\* accounts.json of the scheduler runs: an override of one valid time, an
\* override with no valid entry ("25:00, x:y, 0730"), and a disabled account
SchedAccounts ==
    << [CarouselCfg EXCEPT !.name = "alpha",
                           !.schedule_times = << <<Num(7), Num(30)>> >>],
       [ReelCfg EXCEPT !.name = "beta",
                       !.schedule_times = << <<Num(25), Num(0)>>,
                                             <<Junk, Junk>>, <<Num(730)>> >>],
       [RuthlessCfg EXCEPT !.name = "gamma", !.schedule_enabled = "",
                           !.schedule_times = << <<Num(7), Num(30)>> >>] >>

\* parse_account_times(time_str): the valid HH:MM entries in order; the empty
\* sequence stands for None
RECURSIVE parse_account_times(_)
parse_account_times(time_str) ==
    IF time_str = << >> THEN << >>
    ELSE LET p == time_str[Len(time_str)]
             front == parse_account_times(SubSeq(time_str, 1, Len(time_str) - 1))
         IN  IF /\ Len(p) = 2 /\ p[1].ok /\ p[2].ok
                /\ 0 <= p[1].val /\ p[1].val <= 23
                /\ 0 <= p[2].val /\ p[2].val <= 59
             THEN Append(front, [hour |-> p[1].val, minute |-> p[2].val])
             ELSE front

\* the times an account fires at: its override, else the global slots
EffectiveTimes(acct, globals) ==
    IF parse_account_times(acct.schedule_times) # << >>
    THEN parse_account_times(acct.schedule_times)
    ELSE globals

ShouldRun(acct, globals, t) ==
    \E k \in DOMAIN EffectiveTimes(acct, globals) :
        /\ EffectiveTimes(acct, globals)[k].hour = t.hour
        /\ EffectiveTimes(acct, globals)[k].minute = t.minute

\* last_triggers.get(name) != current_minute_abs
NotYetFiredWrongUnit(lt, name, current_minute_abs) ==
    name \notin DOMAIN lt \/ lt[name] # current_minute_abs % 60
NotYetFired(lt, name, current_minute_abs) ==
    name \notin DOMAIN lt \/ lt[name] # current_minute_abs

\* the body of `for acct in accounts`, from account k on: the last_triggers
\* map and the threads started
RECURSIVE ForAccounts(_, _, _, _, _)
ForAccounts(accts, k, t, globals, st) ==
    IF k > Len(accts) THEN st
    ELSE LET acct == accts[k]
             cur == t.hour * 60 + t.minute
             fire == /\ acct.schedule_enabled = "on"
                     /\ ShouldRun(acct, globals, t)
                     /\ NotYetFired(st.last_triggers, acct.name, cur)
         IN  ForAccounts(accts, k + 1, t, globals,
                IF fire
                THEN [last_triggers |-> (acct.name :> cur) @@ st.last_triggers,
                      launched |-> Append(st.launched,
                                     [acct |-> k, mode |-> "schedule",
                                      day |-> t.day, hour |-> t.hour,
                                      minute |-> t.minute])]
                ELSE st)

\* the minutes the clock is observed at: every global slot, the override
\* minute, and one minute at which nothing is due
ClockTimes ==
    << [hour |-> 7, minute |-> 30], [hour |-> 7, minute |-> 31],
       [hour |-> 15, minute |-> 0], [hour |-> 18, minute |-> 30],
       [hour |-> 23, minute |-> 0] >>

Later(t) == {k \in DOMAIN ClockTimes :
                ClockTimes[k].hour * 60 + ClockTimes[k].minute
                    > t.hour * 60 + t.minute}

SchedInit ==
    /\ accounts = SchedAccounts
    /\ RotInit
    /\ SchedIdle
    /\ WebIdle

\* one pass of the `while True` body of run_schedule_loop
Tick ==
    /\ LET globals == get_global_times_list(schedule_settings)
           st == ForAccounts(accounts, 1, clock, globals,
                             [last_triggers |-> last_triggers,
                              launched |-> launched])
       IN  /\ now' = clock
           /\ global_times' = globals
           /\ last_triggers' = st.last_triggers
           /\ launched' = st.launched
    /\ UNCHANGED <<accounts, rotVars, status, run, pre, clock,
                   schedule_settings, webVars>>

\* time passes to the next observed minute; the loop, which sleeps 30 s
\* between passes, has made a pass in the current one
Pass ==
    /\ now = clock
    /\ IF Later(clock) # {}
       THEN LET k == CHOOSE i \in Later(clock) : \A j \in Later(clock) : i <= j
            IN  clock' = [day |-> clock.day, hour |-> ClockTimes[k].hour,
                          minute |-> ClockTimes[k].minute]
       ELSE /\ clock.day < MaxDay
            /\ clock' = [day |-> clock.day + 1, hour |-> ClockTimes[1].hour,
                         minute |-> ClockTimes[1].minute]
    /\ UNCHANGED <<accounts, rotVars, status, run, pre, now, global_times,
                   last_triggers, schedule_settings, launched, webVars>>

\* POST /schedule-settings with the enabled box checked or not
SaveScheduleSettings(enabled) ==
    /\ schedule_settings' = [schedule_settings EXCEPT !.enabled = enabled]
    /\ UNCHANGED <<accounts, rotVars, status, run, pre, clock, now,
                   global_times, last_triggers, launched, webVars>>

SchedNext ==
    \/ Tick
    \/ Pass
    \/ \E enabled \in BOOLEAN : SaveScheduleSettings(enabled)

SchedSpec == SchedInit /\ [][SchedNext]_vars

\* the runs the loop launched for account a in the calendar minute of t
LaunchesAt(a, t) ==
    {k \in DOMAIN launched :
        /\ launched[k].acct = a /\ launched[k].day = t.day
        /\ launched[k].hour = t.hour /\ launched[k].minute = t.minute}

CalendarMinutes ==
    {[day |-> d, hour |-> ClockTimes[k].hour, minute |-> ClockTimes[k].minute] :
        d \in 0..MaxDay, k \in DOMAIN ClockTimes}

\* C8: for any sequence of passes of the scheduler loop, at most one
\* schedule-mode run is launched per account per calendar minute.
C8_OneLaunchPerMinute ==
    \A a \in DOMAIN accounts : \A t \in CalendarMinutes :
        Cardinality(LaunchesAt(a, t)) <= 1

\* two accounts were launched in the minute the loop has just evaluated, so
\* that every further pass in this minute finds both due again
C8_Witness ==
    /\ now = clock
    /\ Cardinality(LaunchesAt(1, clock)) = 1
    /\ Cardinality(LaunchesAt(2, clock)) = 1
    /\ accounts[1].name \in DOMAIN last_triggers
    /\ last_triggers[accounts[1].name] = clock.hour * 60 + clock.minute

\* C9: once a pass of the loop has evaluated a minute, every enabled account
\* whose effective fire times contain that (hour, minute) has exactly one run
\* launched in that calendar minute, on every day.
C9_DueAccountIsLaunched ==
    \A a \in DOMAIN accounts :
        (/\ accounts[a].schedule_enabled = "on"
         /\ ShouldRun(accounts[a], global_times, now))
        => Cardinality(LaunchesAt(a, now)) = 1

\* C10: while the global enable flag is off, no pass of the loop launches a
\* run for any account.
C10_GlobalFlagStopsAll ==
    [][~schedule_settings.enabled => launched' = launched]_vars

\* ------------------------------------------------- run outcome and status
Terminal == {"success", "error"}
InProgress == run.pc \notin {"idle", "done"}

C11_StatusOfRun ==
    /\ InProgress => status[Prefix].status = "running"
    /\ run.pc = "done" => status[Prefix].status \in Terminal

C11_StatusWrite ==
    \A p \in Prefixes :
        status'[p] # status[p] =>
            /\ run.pc # "done"
            /\ status'[p].status \in Terminal \cup {"running"}
            /\ status'[p].status = "running" => run'.pc \notin {"idle", "done"}
            /\ status'[p].status \in Terminal => run'.pc = "done"

\* C11: the status of an account is running from the launch of a run until
\* the run ends, every status write of a run in progress writes running, the
\* write that ends the run writes success or error, and a run that has written
\* a terminal status writes no status afterwards.
C11_StatusMovesForward == []C11_StatusOfRun /\ [][C11_StatusWrite]_vars

C11_Witness ==
    /\ run.pc = "done" /\ run.task = "run_account"
    /\ Len(run.child_ids) = 2
    /\ status[Prefix].status = "success"

\* the steps of the thread of a run, from its first statement to its return
RunStep ==
    \/ StartPublishSelected
    \/ DrawRandomImage
    \/ FinishDraws
    \/ SelectSequentialImages
    \/ SelectRandomVideo
    \/ SelectManualVideo
    \/ NextCaption
    \/ SelectedCaption
    \/ Upload
    \/ Poll
    \/ Verify
    \/ Assemble
    \/ AssembleVerify
    \/ PublishCreation
    \/ Finish
    \/ StepFails
    \/ Return

\* the first run after deployment, of any kind
LiveNext ==
    \/ /\ \A p \in Prefixes : status[p].status = "never"
       /\ \/ \E a \in DOMAIN accounts : RunNow(a)
          \/ \E a \in DOMAIN accounts : ScheduledRun(a)
          \/ \E a \in DOMAIN accounts : \E payload \in Payloads(accounts[a]) :
                Publish(a, payload)
    \/ RunStep

\* every external call returns or times out and the thread is scheduled
LiveSpec == Init /\ [][LiveNext]_vars /\ WF_vars(RunStep)

\* C12: every launched run eventually ends with status success or error; a
\* container that never reports FINISHED or ERROR ends the run in error when
\* the attempts are used up.
C12_RunEndsTerminal ==
    InProgress ~> (run.pc = "done" /\ status[Prefix].status \in Terminal)

C12_Witness ==
    /\ run.pc = "done" /\ run.failed = "verify"
    /\ run.polls = MaxAttempts
    /\ status[Prefix].status = "error"

PublishIssued == run.media_id # 0 \/ run.failed = "publish"

\* C13: in every carousel run the publish call is issued only after the
\* carousel container itself was polled and reported FINISHED.
C13_CarouselPolledBeforePublish ==
    (run.pc \in {"finish", "done"} /\ PublishIssued /\ Cfg.type = "carousel")
    => run.creation_id \in run.finished

CallFailures == {"upload", "verify", "assemble", "assemble_verify", "publish"}

C14_FailedRun ==
    (run.pc = "done" /\ run.failed \in CallFailures)
    => /\ status[Prefix] = [status |-> "error", message |-> run.error]
       /\ run.error # ""
       /\ run.notes = [success |-> 0, failure |-> 1]
       /\ run.comment = "none" /\ run.media_id = 0

\* C14: a run whose upload, readiness wait, carousel creation or publish
\* failed stores status error with the message of the exception, attempts one
\* failure notification, and then only returns: it issues no further call and
\* the exception does not leave the run.
C14_FailureEndsRun ==
    /\ []C14_FailedRun
    /\ [][run.failed # "none" => run' = Idle]_vars

C14_Witness ==
    /\ run.pc = "done" /\ run.failed = "verify" /\ Len(run.child_ids) = 1
    /\ run.api = 2 /\ status[Prefix].status = "error"

C15_Published ==
    (run.pc = "done" /\ run.media_id # 0)
    => /\ run.failed = "none"
       /\ status[Prefix].status = "success"
       /\ status[Prefix].message =
            "published " \o (IF run.permalink = "" THEN "(not available)"
                             ELSE run.permalink)
       /\ run.notes = [success |-> 1, failure |-> 0]

C15_AfterPublish ==
    run.pc = "finish" =>
        /\ run'.pc = "done" /\ run'.failed = "none"
        /\ image_used'[Prefix] =
             IF Marks /\ Cfg.type = "carousel"
             THEN MarkedImages(image_used[Prefix], run.imgs)
             ELSE image_used[Prefix]
        /\ video_used'[Prefix] =
             IF Marks /\ Cfg.type = "reel"
             THEN MarkedVideo(video_used[Prefix], run.vid)
             ELSE video_used[Prefix]

\* C15: once publish returned a media id, the run ends in success with the
\* same marking and one success notification whatever post_comment and
\* fetch_permalink did; a missing permalink shows as "(not available)".
C15_CommentAndPermalinkNonFatal ==
    []C15_Published /\ [][C15_AfterPublish]_vars

C15_Witness ==
    /\ run.pc = "done" /\ run.media_id # 0
    /\ run.comment = "failed" /\ run.permalink = ""
    /\ run.mode = "schedule" /\ status[Prefix].status = "success"

C16_ManualStep ==
    (run.task = "run_account" /\ run.mode = "manual") =>
        /\ image_used' = image_used
        /\ \/ video_used' = video_used
           \/ /\ Cfg.type = "reel"
              /\ VideoCatalog(Cfg) \subseteq video_used[Prefix]
              /\ video_used' = [video_used EXCEPT ![Prefix] = {}]

C17_NoCandidateKeepsRotation ==
    (/\ run.pc = "done" /\ run.mode = "schedule"
     /\ run.failed \in {"No random images available.", "No content available"})
    => RotationOf(Prefix) = pre

\* C18: a publish request without the media its account type requires starts
\* no background task and leaves the status as it was.
C18_InvalidPayloadRejected ==
    [][(run.pc = "idle" /\ run'.task = "publish_selected")
        => IF accounts[run'.acct].type = "reel" THEN run'.vid # << >>
           ELSE run'.imgs # << >>]_vars

\* ------------------------------------------------------ recovery and mirror
\* the file the next step of the thread loads first
NextLoad ==
    IF run.pc = "select" /\ run.task = "run_account"
    THEN IF Cfg.type = "reel" THEN "video_used"
         ELSE IF run.mode = "manual" THEN "image_idx"
         ELSE IF run.draws < Cfg.slides_per_post THEN "image_used" ELSE "none"
    ELSE IF run.pc = "caption" /\ (run.task = "run_account" \/ run.caption = "")
    THEN "caption_idx"
    ELSE IF run.pc = "finish" /\ Marks
    THEN IF Cfg.type = "carousel" THEN "image_used" ELSE "video_used"
    ELSE "none"

\* a recovery whose saves are made with sync left at its default
RestoreAndPush ==
    /\ run.pc # "idle"
    /\ NextLoad \in StateFiles \ present[Prefix]
    /\ \E remote \in Answers(Prefix) :
        /\ restore_from_remote_if_needed(Local(Prefix), remote) # Local(Prefix)
        /\ Store(Prefix, restore_from_remote_if_needed(Local(Prefix), remote))
    /\ mirror' = [mirror EXCEPT !.pushes[Prefix] = TRUE]
    /\ UNCHANGED <<accounts, status, run, pre, schedVars, view, parked>>

\* the load_* the thread makes next finds its file missing and
\* restore_from_remote_if_needed rewrites the files from the mirror
RestoreOnLoad ==
    /\ run.pc # "idle"
    /\ NextLoad \in StateFiles \ present[Prefix]
    /\ \E remote \in Answers(Prefix) :
        /\ restore_from_remote_if_needed(Local(Prefix), remote) # Local(Prefix)
        /\ Store(Prefix, restore_from_remote_if_needed(Local(Prefix), remote))
    /\ UNCHANGED <<accounts, status, run, pre, schedVars, mirror, view, parked>>

\* a push_state_bg(prefix) thread runs save_remote_state: the document is
\* read, the entry of the prefix replaced by get_full_local_state(prefix) and
\* the document written back ("saved"); a read answered with another status
\* starts from an empty document ("clobbered"); an exception or a rejected
\* write leaves the document as it is ("failed"); last tells whether it was
\* the last thread of the prefix still to run
PushOutcomes == {"saved", "clobbered", "failed"}

PushState(prefix, outcome, last) ==
    /\ mirror.pushes[prefix]
    /\ mirror' =
         [mirror EXCEPT
            !.pushes[prefix] = ~last,
            !.doc = IF outcome = "failed" THEN @
                    ELSE [q \in Prefixes |->
                            IF q = prefix THEN get_full_local_state(prefix)
                            ELSE IF outcome = "saved" THEN @[q]
                            ELSE NoSnapshot]]
    /\ UNCHANGED <<accounts, rotVars, status, run, pre, schedVars, present,
                   view, parked>>

\* ------------------------------------------------------------------ preview
\* image_candidates(cfg, page, page_size, include_used) with the pointer and
\* used-set it loaded. range(start_idx, end_idx + 1) is fixed when the loop
\* starts, so the loop visits page_size indexes, and the break on end_idx
\* needs more skips than that
image_candidates(cfg, last, used_set, page, page_size, include_used) ==
    IF cfg.type # "carousel" \/ _norm_base(cfg.base_url) = << >>
    THEN [items |-> << >>, has_more |-> TRUE, total_items |-> 0]
    ELSE LET start_idx == last + 1 + (page - 1) * page_size
             visited == [k \in 1..page_size |->
                           [url |-> JoinUrl(_norm_base(cfg.base_url),
                                            quote(_image_name_for(start_idx + k - 1))),
                            filename |-> _image_name_for(start_idx + k - 1),
                            used |-> _image_name_for(start_idx + k - 1)
                                        \in used_set]]
             items == SelectSeq(visited, LAMBDA it : include_used \/ ~it.used)
         IN  [items |-> items, has_more |-> Len(items) >= page_size,
              total_items |-> cfg.max_images]

\* seq[start:end] of Python
PySlice(seq, start, end) ==
    LET at(i) == IF i < 0 THEN (IF Len(seq) + i < 0 THEN 0 ELSE Len(seq) + i)
                 ELSE IF i > Len(seq) THEN Len(seq) ELSE i
    IN  IF at(start) < at(end) THEN SubSeq(seq, at(start) + 1, at(end))
        ELSE << >>

\* video_candidates(cfg, page, page_size, include_used) with the used-set it
\* loaded
video_candidates(cfg, used, page, page_size, include_used) ==
    IF cfg.type # "reel" \/ _norm_base(cfg.video_base_url) = << >>
    THEN [items |-> << >>, has_more |-> FALSE, total_items |-> 0]
    ELSE LET all_files == VideoCatalogSeq(cfg)
             ordered == IF include_used THEN all_files
                        ELSE SelectSeq(all_files, LAMBDA f : f \notin used)
             total == Len(ordered)
             start == (page - 1) * page_size
             end == IF start + page_size < total THEN start + page_size
                    ELSE total
             page_files == PySlice(ordered, start, end)
         IN  IF total = 0
             THEN [items |-> << >>, has_more |-> FALSE, total_items |-> 0]
             ELSE [items |-> [k \in DOMAIN page_files |->
                                [url |-> VideoUrl(cfg, page_files[k]),
                                 filename |-> page_files[k],
                                 used |-> page_files[k] \in used]],
                   has_more |-> end < total, total_items |-> total]

Pages == 1..MaxPage
PageSizes == (0 - 1)..MaxPageSize

\* the answers of the mirror that matter to a load of key on the store st
AnswersTo(prefix, st, key) ==
    IF key \in st.present THEN {NoSnapshot} ELSE Answers(prefix)

\* GET /preview/<idx>?page=&page_size=&include_used= on a caption list of K
\* lines: peek_caption, then image_candidates or video_candidates. r1, r2, r3
\* are the answers of the mirror to the loads that find their file missing
Preview(a, page, page_size, include_used) ==
    /\ view.n < MaxPreviews
    /\ LET cfg == accounts[a]
           prefix == accounts[a].state_prefix
           second == IF cfg.type = "carousel" THEN "image_idx" ELSE "video_used"
           based == IF cfg.type = "carousel"
                    THEN _norm_base(cfg.base_url) # << >>
                    ELSE _norm_base(cfg.video_base_url) # << >>
       IN
       \E K \in 0..MaxLines :
       \E r1 \in AnswersTo(prefix, Local(prefix), "caption_idx") :
       LET s1 == Loaded(Local(prefix), "caption_idx", r1) IN
       \E r2 \in AnswersTo(prefix, s1, second) :
       LET s2 == IF based THEN Loaded(s1, second, r2) ELSE s1 IN
       \E r3 \in AnswersTo(prefix, s2, "image_used") :
       LET s3 == IF based /\ cfg.type = "carousel"
                 THEN Loaded(s2, "image_used", r3) ELSE s2
           res == IF cfg.type = "carousel"
                  THEN image_candidates(cfg, ValueOf(s2, "image_idx"),
                                        ValueOf(s3, "image_used"),
                                        page, page_size, include_used)
                  ELSE video_candidates(cfg, ValueOf(s2, "video_used"),
                                        page, page_size, include_used)
       IN  /\ Store(prefix, s3)
           /\ view' = [n |-> view.n + 1, acct |-> a,
                       caption |-> PeekCaption(ValueOf(s1, "caption_idx"), K),
                       items |-> res.items, has_more |-> res.has_more,
                       total_items |-> res.total_items]
    /\ UNCHANGED <<accounts, status, run, pre, schedVars, mirror, parked>>

\* a deployment with a mirror, started on an empty volume: one account, whose
\* entry in the document is missing or was pushed by an earlier deployment;
\* manual runs, and preview requests between them
EarlierSnapshot(cfg) ==
    [found |-> TRUE, caption_idx |-> 1,
     image_idx |-> IF cfg.type = "carousel" THEN 1 ELSE 0,
     image_used |-> IF cfg.type = "carousel" THEN {_image_name_for(2)} ELSE {},
     video_used |-> IF cfg.type = "reel" THEN {VideoName(0)} ELSE {}]

MirrorInit ==
    /\ accounts \in {<<RuthlessCfg>>, <<ReelCfg>>}
    /\ RotInit
    /\ SchedIdle
    /\ present = [p \in Prefixes |-> {}]
    /\ \E snapshot \in {NoSnapshot, EarlierSnapshot(accounts[1])} :
        mirror = [configured |-> TRUE,
                  doc |-> [p \in Prefixes |->
                             IF p = accounts[1].state_prefix THEN snapshot
                             ELSE NoSnapshot],
                  pushes |-> [p \in Prefixes |-> FALSE]]
    /\ view = NoView
    /\ parked = NoThread

MirrorNext ==
    \/ \E a \in DOMAIN accounts : RunNow(a)
    \/ RestoreOnLoad
    \/ SelectSequentialImages
    \/ SelectManualVideo
    \/ NextCaption
    \/ Upload
    \/ Poll
    \/ Verify
    \/ Assemble
    \/ PublishCreation
    \/ Finish
    \/ StepFails
    \/ Return
    \/ \E p \in Prefixes : \E outcome \in PushOutcomes : \E last \in BOOLEAN :
          PushState(p, outcome, last)
    \/ \E a \in DOMAIN accounts : \E page \in Pages : \E page_size \in PageSizes :
       \E include_used \in BOOLEAN :
          run.pc = "idle" /\ Preview(a, page, page_size, include_used)

MirrorSpec == MirrorInit /\ [][MirrorNext]_vars

\* what a load of the file of key returns in this state, the mirror answering
ReadOf(prefix, key) ==
    ValueOf(Loaded(Local(prefix), key, mirror.doc[prefix]), key)

Observed(prefix) == [key \in StateFiles |-> ReadOf(prefix, key)]

\* the content the next manual selection of the account returns, the mirror
\* answering: the media of next_images / next_video_shim and the caption
\* index next_caption reads after them
NextSelection(a) ==
    LET cfg == accounts[a]
        prefix == accounts[a].state_prefix
        first == IF cfg.type = "carousel" THEN "image_idx" ELSE "video_used"
        s1 == Loaded(Local(prefix), first, mirror.doc[prefix])
        unused == VideoCandidatesFirst(cfg, ValueOf(s1, "video_used"))
        written == IF cfg.type = "carousel" THEN {"image_idx"}
                   ELSE IF unused = << >> THEN {"video_used"} ELSE {}
        s2 == Loaded([s1 EXCEPT !.present = @ \cup written], "caption_idx",
                     mirror.doc[prefix])
    IN  [media |-> IF cfg.type = "carousel"
                   THEN next_images(cfg, ValueOf(s1, "image_idx"))
                   ELSE IF unused # << >> THEN unused
                   ELSE VideoCandidatesFirst(cfg, {}),
         caption_index |-> ValueOf(s2, "caption_idx")]

\* C19: a preview request, with any page, page_size and include_used, leaves
\* what the loads of caption_index, image_index, image_used and video_used
\* return unchanged, and the next selection returns the content it would have
\* returned without the request.
C19_PreviewKeepsRotation ==
    [][view'.n # view.n =>
          \A a \in DOMAIN accounts :
             /\ Observed(accounts[a].state_prefix)'
                   = Observed(accounts[a].state_prefix)
             /\ NextSelection(a)' = NextSelection(a)]_vars

\* --------------------------------------------------------------- two accounts
\* the names of the files of a prefix: f"{prefix}_{key}.json",
\* f"{prefix}_video_used.json", f"{prefix}_image_used.json" and status_path
FileKinds == StateFiles \cup {"status"}

FileSuffix(kind) ==
    IF kind = "caption_idx" THEN <<"_caption", ".json">>
    ELSE IF kind = "image_idx" THEN <<"_image", ".json">>
    ELSE IF kind = "image_used" THEN <<"_image", "_used", ".json">>
    ELSE IF kind = "video_used" THEN <<"_video", "_used", ".json">>
    ELSE <<"_status", ".json">>

FileName(prefix, kind) == prefix \o FileSuffix(kind)

\* state_prefix values that differ, some made of parts of the file names
SomePrefixes ==
    Prefixes \cup {<<"a">>, <<"a", "_image">>, <<"a", "_image", "_used">>,
                   <<"a", "_video">>, <<"a", "_status">>, <<"a", ".json">>}

\* a thread that sleeps in wait_until_ready, or the idle one, stops stepping
\* and the other thread goes on
Switch ==
    /\ run.pc \in {"idle", "verify"}
    /\ run.pc # "idle" \/ parked.run.pc # "idle"
    /\ run' = parked.run
    /\ pre' = parked.pre
    /\ parked' = [run |-> run, pre |-> pre]
    /\ UNCHANGED <<accounts, rotVars, status, schedVars, present, mirror, view>>

\* a deployment with a mirror and two accounts, started on an empty volume;
\* the document holds an entry of each account from an earlier deployment
PairInit ==
    /\ accounts = <<[RuthlessCfg EXCEPT !.max_images = 1],
                    [ReelCfg EXCEPT !.max_images = 0]>>
    /\ RotInit
    /\ SchedIdle
    /\ present = [p \in Prefixes |-> {}]
    /\ mirror = [configured |-> TRUE,
                 doc |-> [p \in Prefixes |->
                            IF p = RuthlessCfg.state_prefix
                            THEN EarlierSnapshot(RuthlessCfg)
                            ELSE IF p = ReelCfg.state_prefix
                            THEN EarlierSnapshot(ReelCfg)
                            ELSE NoSnapshot],
                 pushes |-> [p \in Prefixes |-> FALSE]]
    /\ view = NoView
    /\ parked = NoThread

\* the first run of an account, while no run of it is in progress
FirstRun(a) ==
    /\ status[accounts[a].state_prefix].status = "never"
    /\ parked.run.acct # a

\* the response of the preview request was sent
PreviewReturn ==
    /\ view # NoView
    /\ view' = NoView
    /\ UNCHANGED <<accounts, rotVars, status, run, pre, schedVars, present,
                   mirror, parked>>

\* no preview request is being answered
Served == view = NoView

\* the first runs of the two accounts, run together, and preview requests
\* answered one at a time while the thread that steps is idle; the push
\* threads the saves started have not run yet
PairNext ==
    \/ \E a \in DOMAIN accounts : Served /\ FirstRun(a) /\ RunNow(a)
    \/ \E a \in DOMAIN accounts : Served /\ FirstRun(a) /\ ScheduledRun(a)
    \/ Served /\ Switch
    \/ Served /\ RestoreOnLoad
    \/ Served /\ DrawRandomImage
    \/ Served /\ FinishDraws
    \/ Served /\ SelectSequentialImages
    \/ Served /\ SelectRandomVideo
    \/ Served /\ SelectManualVideo
    \/ Served /\ NextCaption
    \/ Served /\ Upload
    \/ Served /\ Poll
    \/ Served /\ Verify
    \/ Served /\ Assemble
    \/ Served /\ PublishCreation
    \/ Served /\ Finish
    \/ Served /\ StepFails
    \/ Served /\ Return
    \/ \E a \in DOMAIN accounts : \E include_used \in BOOLEAN :
          Served /\ run.pc = "idle" /\ Preview(a, 1, 1, include_used)
    \/ PreviewReturn

PairSpec == PairInit /\ [][PairNext]_vars

\* the account a step acts for: the one previewed, the one launched, or the
\* one of the thread that steps (0 when the step is for no account)
Actor ==
    IF view' # view THEN view'.acct
    ELSE IF run.pc = "idle" THEN run'.acct
    ELSE run.acct

OwnFilesOnly ==
    \A q \in Prefixes :
        (\/ RotationOf(q)' # RotationOf(q)
         \/ present'[q] # present[q]
         \/ status'[q] # status[q])
        => /\ Actor \in DOMAIN accounts
           /\ q = accounts[Actor].state_prefix

\* the thread that does not step is left as it is, or becomes the one that
\* steps
OtherThreadKept ==
    \/ parked' = parked
    \/ /\ run' = parked.run /\ pre' = parked.pre
       /\ parked' = [run |-> run, pre |-> pre]
       /\ UNCHANGED <<rotVars, present, status>>

FilesDisjoint ==
    \A p \in SomePrefixes : \A q \in SomePrefixes :
        \A k1 \in FileKinds : \A k2 \in FileKinds :
            p # q => FileName(p, k1) # FileName(q, k2)

\* C20: a step of a run, a preview or a recovery for one account changes the
\* rotation state, the state files and the status of no account with another
\* state_prefix, whose files have other names, and leaves the thread of a run
\* that is in progress for another account as it is, also when the step is the
\* failure of the run.
C20_AccountsIsolated ==
    []FilesDisjoint /\ [][OwnFilesOnly /\ OtherThreadKept]_vars

\* the run of one account has failed, after its files were restored from the
\* mirror, while the run of the other account waits in wait_until_ready with
\* its status still running
C20_Witness ==
    /\ run.pc = "done" /\ run.failed # "none"
    /\ status[Prefix].status = "error"
    /\ present[Prefix] = StateFiles
    /\ parked.run.pc = "verify"
    /\ status[accounts[parked.run.acct].state_prefix].status = "running"

\* ------------------------------------------------------ loss of the volume
\* the JSON state files are lost on a deploy or restart: every state and
\* status file goes, the threads of the process end, the mirror document stays
LoseLocalState ==
    /\ run.pc = "idle"
    /\ \E p \in Prefixes : present[p] # {}
    /\ caption_idx' = [p \in Prefixes |-> 0]
    /\ image_idx' = [p \in Prefixes |-> 0]
    /\ image_used' = [p \in Prefixes |-> {}]
    /\ video_used' = [p \in Prefixes |-> {}]
    /\ status' = [p \in Prefixes |-> [status |-> "never", message |-> ""]]
    /\ pre' = NoRotation
    /\ present' = [p \in Prefixes |-> {}]
    /\ mirror' = [mirror EXCEPT !.pushes = [p \in Prefixes |-> FALSE]]
    /\ UNCHANGED <<accounts, run, schedVars, view, parked>>

\* a deployment started on an empty volume, with or without JSONBIN_KEY and
\* JSONBIN_ID: one account, manual runs, the push threads they start, and
\* restarts that lose the volume
RecoverInit ==
    /\ accounts \in {<<RuthlessCfg>>, <<ReelCfg>>}
    /\ RotInit
    /\ SchedIdle
    /\ present = [p \in Prefixes |-> {}]
    /\ \E configured \in BOOLEAN :
       \E snapshot \in {NoSnapshot, EarlierSnapshot(accounts[1])} :
        /\ ~configured => snapshot = NoSnapshot
        /\ mirror = [configured |-> configured,
                     doc |-> [p \in Prefixes |->
                                IF p = accounts[1].state_prefix THEN snapshot
                                ELSE NoSnapshot],
                     pushes |-> [p \in Prefixes |-> FALSE]]
    /\ view = NoView
    /\ parked = NoThread

RecoverNext ==
    \/ \E a \in DOMAIN accounts : RunNow(a)
    \/ RestoreOnLoad
    \/ SelectSequentialImages
    \/ SelectManualVideo
    \/ NextCaption
    \/ Upload
    \/ Poll
    \/ Verify
    \/ Assemble
    \/ PublishCreation
    \/ Finish
    \/ StepFails
    \/ Return
    \/ \E p \in Prefixes : \E outcome \in PushOutcomes : \E last \in BOOLEAN :
          PushState(p, outcome, last)
    \/ LoseLocalState

RecoverSpec == RecoverInit /\ [][RecoverNext]_vars

\* the step of a push_state_bg thread: the mirror changes, no thread is
\* started, the volume is still there
PushStep ==
    /\ mirror' # mirror
    /\ \A p \in Prefixes : mirror'.pushes[p] => mirror.pushes[p]
    /\ \E p \in Prefixes : present'[p] # {}

\* a save started a push_state_bg thread of the prefix
PushStarted(p) == mirror'.pushes[p] /\ ~mirror.pushes[p]

\* str(e) of the exceptions the run raises itself or receives from the
\* caption fetch and the Graph API
RunErrors ==
    {"No random images available.", "No content available",
     "No slides selected", "failed readiness",
     "name 'last_resp' is not defined", "Instagram API Error",
     "Carousel container creation error", "media_publish error",
     "Failed to fetch caption_url"}

\* C21: a push thread exists only for a prefix whose file was written first,
\* and the document it stores holds the files as they are when it runs; a
\* mirror that is not configured, fails or answers nothing changes no state
\* file, no status and no run: a push step leaves them all alone, a fetch
\* answered with nothing writes nothing, and a run fails only with an error
\* of its own pipeline.
C21_MirrorFailureIsHarmless ==
    /\ [](\A p \in Prefixes :
            /\ mirror.pushes[p] => present[p] # {}
            /\ restore_from_remote_if_needed(Local(p), NoSnapshot) = Local(p)
            /\ ~mirror.configured
                  => ~mirror.pushes[p] /\ mirror.doc[p] = NoSnapshot)
    /\ [](run.failed # "none" => run.error \in RunErrors)
    /\ [][/\ \A p \in Prefixes : PushStarted(p) => present'[p] # {}
          /\ PushStep =>
               /\ UNCHANGED <<rotVars, present, status, run>>
               /\ mirror'.doc # mirror.doc =>
                    \E p \in Prefixes :
                       mirror'.doc[p] = get_full_local_state(p)']_vars

\* a manual run published although the push of its writes failed and the
\* document holds nothing
C21_Witness ==
    /\ run.pc = "done"
    /\ run.notes.success = 1
    /\ mirror.configured
    /\ present[Prefix] # {}
    /\ ~mirror.pushes[Prefix]
    /\ mirror.doc[Prefix] = NoSnapshot

\* the step in which restore_from_remote_if_needed rewrote the files of the
\* prefix: both used files, missing before, exist after it
RestoreStep(p) ==
    /\ {"image_used", "video_used"} \cap present[p] = {}
    /\ {"image_used", "video_used"} \subseteq present'[p]

\* C22: a recovery from the mirror leaves every state file that exists
\* locally with the value it had: no load replaces the content of an existing
\* caption_index, image_index, image_used or video_used file with the
\* mirror's.
C22_RecoveryKeepsLocal ==
    [][\A p \in Prefixes :
          RestoreStep(p) =>
             \A key \in present[p] : Local(p)'[key] = Local(p)[key]]_vars

\* C23: recovering twice in a row gives the files recovering once gives,
\* whatever the mirror answers and whichever files exist: the second call
\* changes nothing; and the step that recovers starts no push.
C23_RecoveryIdempotent ==
    /\ [](\A p \in Prefixes : \A remote \in Answers(p) :
            restore_from_remote_if_needed(
                restore_from_remote_if_needed(Local(p), remote), remote)
              = restore_from_remote_if_needed(Local(p), remote))
    /\ [][\A p \in Prefixes :
            RestoreStep(p) =>
               /\ mirror' = mirror
               /\ restore_from_remote_if_needed(Local(p)', mirror.doc[p])
                     = Local(p)']_vars

\* the files of the account were recovered from the entry of the mirror
\* during the run, and no push is waiting
C23_Witness ==
    /\ run.pc # "idle"
    /\ present[Prefix] = StateFiles
    /\ mirror.doc[Prefix].found
    /\ mirror.doc[Prefix].caption_idx > 0
    /\ Local(Prefix).caption_idx = mirror.doc[Prefix].caption_idx
    /\ Local(Prefix).image_used = mirror.doc[Prefix].image_used
    /\ ~mirror.pushes[Prefix]

\* C24: what a push stores is the content of the files; after the loss of
\* every file the first load of any of them, the mirror answering with the
\* entry pushed, writes files that read back as the state pushed; a load the
\* mirror answers with nothing returns 0 or the empty set. In steps: the
\* recovery on an empty volume makes the four files equal to the entry.
C24_RoundTrip ==
    /\ [](\A p \in Prefixes : \A first \in StateFiles : \A key \in StateFiles :
            /\ ValueOf(Loaded(Loaded(EmptyStore, first, get_full_local_state(p)),
                              key, get_full_local_state(p)), key)
                  = ValueOf(Local(p), key)
            /\ ValueOf(Loaded(EmptyStore, key, NoSnapshot), key)
                  = ValueOf(EmptyStore, key))
    /\ [][\A p \in Prefixes :
            /\ PushStep /\ mirror'.doc[p] # mirror.doc[p] /\ mirror'.doc[p].found
                  => \A key \in StateFiles :
                        mirror'.doc[p][key] = ValueOf(Local(p), key)
            /\ RestoreStep(p) /\ present[p] = {}
                  => \A key \in StateFiles :
                        ValueOf(Local(p)', key) = mirror.doc[p][key]]_vars

\* a run wrote image index 2, the push stored it, the volume was lost, and
\* the first load of the next run recovered it
C24_Witness ==
    /\ run.pc = "select"
    /\ present[Prefix] = StateFiles
    /\ mirror.doc[Prefix].image_idx = 2
    /\ image_idx[Prefix] = 2

\* ------------------------------------------------------- /trigger-schedule
\* accounts.json of the trigger requests: three accounts, each with
\* schedule_enabled "on", another value, or no such key ("")
EnabledFlags == {"on", "off", ""}

TriggerAccounts ==
    {<< [CarouselCfg EXCEPT !.schedule_enabled = f1],
        [RuthlessCfg EXCEPT !.schedule_enabled = f2],
        [ReelCfg EXCEPT !.schedule_enabled = f3] >> :
        f1 \in EnabledFlags, f2 \in EnabledFlags, f3 \in EnabledFlags}

\* acct.get("schedule_enabled") == "on"
ScheduleEnabledUnlessOff(acct) == acct.schedule_enabled # "off"
ScheduleEnabled(acct) == acct.schedule_enabled = "on"

\* trigger_scheduled_posts(): the body of `for acct in accounts`, from
\* account k on: the threads started and count
RECURSIVE trigger_scheduled_posts(_, _, _)
trigger_scheduled_posts(accts, k, st) ==
    IF k > Len(accts) THEN st
    ELSE trigger_scheduled_posts(accts, k + 1,
            IF ScheduleEnabled(accts[k])
            THEN [launched |-> Append(st.launched,
                                 [acct |-> k, mode |-> "schedule",
                                  day |-> clock.day, hour |-> clock.hour,
                                  minute |-> clock.minute]),
                  count |-> st.count + 1]
            ELSE st)

\* GET /trigger-schedule: the response carries the count returned
manual_trigger_schedule ==
    /\ view.n < MaxCalls
    /\ LET st == trigger_scheduled_posts(accounts, 1,
                    [launched |-> launched, count |-> 0])
       IN  /\ launched' = st.launched
           /\ view' = [NoView EXCEPT !.n = view.n + 1,
                                     !.caption = "Triggered",
                                     !.total_items = st.count]
    /\ UNCHANGED <<accounts, rotVars, status, run, pre, clock, now,
                   global_times, last_triggers, schedule_settings, present,
                   mirror, parked>>

TriggerInit ==
    /\ accounts \in TriggerAccounts
    /\ RotInit
    /\ SchedIdle
    /\ WebIdle

TriggerNext ==
    \/ manual_trigger_schedule
    \/ \E enabled \in BOOLEAN : SaveScheduleSettings(enabled)

TriggerSpec == TriggerInit /\ [][TriggerNext]_vars

\* the threads a step started
Started == SubSeq(launched', Len(launched) + 1, Len(launched'))

\* C25: a /trigger-schedule request starts exactly one schedule-mode run for
\* each account whose schedule_enabled is "on" and none for any other
\* account, whatever the global setting, and the count it returns is the
\* number of runs it started.
C25_TriggerLaunchesEnabled ==
    [][view'.n # view.n =>
          /\ SubSeq(launched', 1, Len(launched)) = launched
          /\ \A k \in DOMAIN Started :
                Started[k].acct \in DOMAIN accounts
                   /\ Started[k].mode = "schedule"
          /\ \A a \in DOMAIN accounts :
                Cardinality({k \in DOMAIN Started : Started[k].acct = a})
                   = IF accounts[a].schedule_enabled = "on" THEN 1 ELSE 0
          /\ view'.total_items = Len(Started)]_vars

\* a request answered 2 with the global setting off: two of the three
\* accounts are enabled, one has no schedule_enabled key
C25_Witness ==
    /\ view.n = 1
    /\ view.total_items = 2
    /\ Len(launched) = 2
    /\ ~schedule_settings.enabled
    /\ \E a \in DOMAIN accounts : accounts[a].schedule_enabled = ""

\* C26: in every reachable state the persisted image_used of a carousel
\* account holds only names of its image catalog, img (1).jpg to
\* img (max_images).jpg, and the persisted video_used of a reel account only
\* names of its video catalog, vid.mp4 and vid (1).mp4 to vid (max_images).mp4.
C26_UsedSetsWithinCatalog ==
    \A a \in DOMAIN accounts :
        /\ accounts[a].type = "carousel"
              => image_used[accounts[a].state_prefix]
                    \subseteq ImageCatalog(accounts[a])
        /\ accounts[a].type = "reel"
              => video_used[accounts[a].state_prefix]
                    \subseteq VideoCatalog(accounts[a])

\* C27: whatever pointer is stored, also one beyond max_images or beyond the
\* number of caption lines, the images a next_images call returned have
\* virtual indices in 1..max_images, the caption a next_caption call returned
\* is one of the K lines, and the indices the next call will use are again
\* inside 1..max_images and 0..K-1: no call indexes outside the catalog.
C27_SelectionWithinCatalog ==
    /\ run.pc = "images" =>
         /\ Len(run.imgs) = IF run.draws = 0 THEN 0 ELSE Cfg.slides_per_post
         /\ \A i \in DOMAIN run.imgs :
               UrlIndex(run.imgs[i]) \in 1..Cfg.max_images
         /\ \A i \in 1..Cfg.slides_per_post :
               NextImageIndex(image_idx[Prefix], i, Cfg.max_images)
                  \in 1..Cfg.max_images
    /\ run.pc = "captions" =>
         /\ caption_idx[Prefix] % run.lines \in 0..(run.lines - 1)
         /\ (caption_idx[Prefix] % run.lines) + 1 \in DOMAIN Lines(run.lines)
         /\ run.draws >= 1 =>
               \E j \in 0..(run.lines - 1) : run.cap = Lines(run.lines)[j + 1]

\* a call with stored pointer 10 on a catalog that has shrunk to 3 images
\* returned images 2 and 3
C27_Witness ==
    /\ run.pc = "images" /\ run.draws = 1
    /\ pre.image_index = 10 /\ Cfg.max_images = 3 /\ Cfg.slides_per_post = 2
    /\ UrlIndex(run.imgs[1]) = 2 /\ UrlIndex(run.imgs[2]) = 3

\* the (hour, minute) pairs of a list of times
SlotsOf(times) ==
    {[hour |-> times[k].hour, minute |-> times[k].minute] : k \in DOMAIN times}

\* the named slots of schedule_settings.json
GlobalSlots ==
    SlotsOf(<<schedule_settings.morning, schedule_settings.afternoon,
              schedule_settings.evening, schedule_settings.night>>)

\* the slots the claim gives an account: its valid override entries, and the
\* global named slots when it has none
OwnSlots(a) ==
    IF parse_account_times(accounts[a].schedule_times) # << >>
    THEN SlotsOf(parse_account_times(accounts[a].schedule_times))
    ELSE GlobalSlots

\* every run the loop launched for the account was launched at one of its slots
OnlyAtOwnSlots(a) ==
    \A k \in DOMAIN launched :
        launched[k].acct = a =>
           [hour |-> launched[k].hour, minute |-> launched[k].minute]
              \in OwnSlots(a)

\* the minute the latest pass evaluated is one of the slots the account has
\* in that pass: a run was launched in it
AtEveryOwnSlot(a) ==
    [hour |-> now.hour, minute |-> now.minute]
        \in SlotsOf(EffectiveTimes(accounts[a], global_times))
    => LaunchesAt(a, now) # {}

\* C28: an enabled account with at least one valid override entry is launched
\* at the minutes of its valid entries and at no other minute, global slots
\* included; an enabled account whose override is empty or has no valid entry
\* is launched at the global named slots and at no other minute.
C28_OverrideReplacesGlobal ==
    \A a \in DOMAIN accounts :
        accounts[a].schedule_enabled = "on"
        => OnlyAtOwnSlots(a) /\ AtEveryOwnSlot(a)

\* ------------------------------------------------------- readiness and order
\* the run is inside wait_until_ready, for the container WaitedFor
Waiting == run.pc \in {"verify", "assemble_verify"}
WaitedFor == IF run.pc = "verify" THEN run.cid ELSE run.creation_id

\* C29: wait_until_ready polls a container at most max_attempts times; the
\* container counts as ready only through a poll made while attempts are
\* left, and the wait returns at that poll; a poll that brings no verdict
\* consumes one attempt and changes nothing else; a wait that fails (ERROR,
\* or no attempt left) never marks the container ready and ends the run with
\* status error; with no attempt left that is the only step.
C29_ReadinessBounded ==
    /\ [](run.polls <= MaxAttempts)
    /\ [][Waiting =>
            /\ WaitedFor \in run'.finished
                  => /\ run.polls < MaxAttempts
                     /\ run'.pc \notin {run.pc, "done"}
                     /\ run'.failed = "none"
            /\ run.polls = MaxAttempts => run'.pc = "done"
            /\ run'.pc = "done"
                  => /\ run'.failed = run.pc
                     /\ WaitedFor \notin run'.finished
                     /\ status'[Prefix].status = "error"
                     /\ run'.media_id = 0
            /\ run'.pc = run.pc
                  => /\ run'.polls = run.polls + 1
                     /\ run'.finished = run.finished
                     /\ status' = status]_vars

\* a reel container reported FINISHED at the last attempt, after polls that
\* brought no verdict
C29_Witness ==
    /\ run.pc = "publish" /\ Cfg.type = "reel"
    /\ run.polls = MaxAttempts - 1
    /\ run.polls >= 1
    /\ run.cid \in run.finished

\* the run of a carousel account, from its launch to the end of its thread
CarouselRun == run.pc # "idle" /\ Cfg.type = "carousel"

\* C30: in a carousel run the container of image i+1 is created only when
\* the containers of images 1..i have reported FINISHED; the carousel
\* container is created only when every selected image has a container that
\* reported FINISHED, and its children are those containers in the order of
\* the selection; publish is issued only for a carousel container whose
\* creation returned an id.
C30_CarouselOrdered ==
    /\ [](CarouselRun =>
            /\ run.child_ids = [k \in 1..Len(run.child_ids) |-> k]
            /\ \A k \in DOMAIN run.child_ids : run.child_ids[k] \in run.finished
            /\ Len(run.child_ids) <= Total
            /\ run.pc = "verify" => run.cid = Len(run.child_ids) + 1
            /\ run.creation_id # 0 =>
                  Len(run.child_ids) = Total /\ Total >= 1
            /\ (run.pc \in {"publish", "finish"} \/ PublishIssued) =>
                  run.creation_id # 0)
    /\ [][CarouselRun =>
            /\ (run.pc = "upload" /\ run'.pc = "verify") =>
                  /\ run'.cid <= Total
                  /\ \A j \in 1..(run'.cid - 1) : j \in run.finished
            /\ (run.creation_id = 0 /\ run'.creation_id # 0) =>
                  /\ run'.child_ids = run.child_ids
                  /\ Len(run.child_ids) = Total
                  /\ \A j \in 1..Total : j \in run.finished
            /\ (run.media_id = 0 /\ run'.media_id # 0) =>
                  run.pc = "publish" /\ run.creation_id # 0]_vars

\* a carousel of two images is about to be published: containers 1 and 2
\* reported FINISHED in that order and are the children of container 3
C30_Witness ==
    /\ CarouselRun /\ run.pc = "publish"
    /\ Len(run.imgs) = 2
    /\ run.child_ids = <<1, 2>>
    /\ run.finished = {1, 2}
    /\ run.creation_id = 3

\* ------------------------------------------------ the probe loop, step by step
\* `while attempts < max_check_attempts`, explored up to MaxProbes probes
ProbeCap ==
    IF MaxProbes < max_check_attempts THEN MaxProbes ELSE max_check_attempts

\* the locals of one get_random_candidate call, next to those of the run:
\* unused, attempts, the candidates random.choice picked in order (tried),
\* those whose check_content_exists returned True (answered), and the value
\* returned (a 0- or 1-element sequence)
ProbeRun ==
    [unused |-> {}, attempts |-> 0, tried |-> << >>, answered |-> {},
     result |-> << >>] @@ Idle

\* accounts whose catalog is larger than the probes explored
ProbeConfigs ==
    {[CarouselCfg EXCEPT !.max_images = MaxProbes + 1],
     [RuthlessCfg EXCEPT !.max_images = MaxProbes + 1],
     [ReelCfg EXCEPT !.max_images = MaxProbes]}

\* the names mark_images_used / mark_video_used have written for the catalog
WrittenNames(cfg) ==
    IF cfg.type = "carousel"
    THEN {LastSegment(ImageUrl(cfg, x)) : x \in ImageCatalog(cfg)}
    ELSE {LastSegment(VideoUrl(cfg, x)) : x \in VideoCatalog(cfg)}

\* unused.remove(selected_filename)
AfterFailedProbeKept(unused, x) == unused
AfterFailedProbe(unused, x) == unused \ {x}

\* a schedule-mode run calls get_random_candidate on a used-set earlier runs
\* have written
ProbeInit ==
    /\ accounts \in {<<cfg>> : cfg \in ProbeConfigs}
    /\ \E used \in SUBSET WrittenNames(accounts[1]) :
        /\ image_used = [p \in Prefixes |->
              IF p = accounts[1].state_prefix /\ accounts[1].type = "carousel"
              THEN used ELSE {}]
        /\ video_used = [p \in Prefixes |->
              IF p = accounts[1].state_prefix /\ accounts[1].type = "reel"
              THEN used ELSE {}]
        /\ present = [p \in Prefixes |->
              IF p # accounts[1].state_prefix \/ used = {} THEN {}
              ELSE IF accounts[1].type = "carousel" THEN {"image_used"}
              ELSE {"video_used"}]
    /\ caption_idx = [p \in Prefixes |-> 0]
    /\ image_idx = [p \in Prefixes |-> 0]
    /\ status = [p \in Prefixes |-> [status |-> "never", message |-> ""]]
    /\ run = [ProbeRun EXCEPT !.pc = "candidates", !.task = "run_account",
                              !.acct = 1, !.mode = "schedule"]
    /\ pre = [NoRotation EXCEPT
                !.image_used = image_used[accounts[1].state_prefix],
                !.video_used = video_used[accounts[1].state_prefix]]
    /\ SchedIdle
    /\ mirror = NoMirror
    /\ view = NoView
    /\ parked = NoThread

\* get_random_candidate, steps 1 to 3: the items, the filter, the reset
FilterUsed ==
    /\ run.pc = "candidates"
    /\ run' = [run EXCEPT !.pc = "probe",
                          !.unused = Pool(Cfg, Kind),
                          !.resets = IF NeedsReset(Cfg, Kind) THEN 1 ELSE 0]
    /\ image_used' = IF Kind = "image"
                     THEN [image_used EXCEPT ![Prefix] =
                              PersistedBySelection(Cfg, "image", << >>)]
                     ELSE image_used
    /\ video_used' = IF Kind = "video"
                     THEN [video_used EXCEPT ![Prefix] =
                              PersistedBySelection(Cfg, "video", << >>)]
                     ELSE video_used
    /\ UNCHANGED <<accounts, caption_idx, image_idx, status, pre, schedVars,
                   view, parked>>
    /\ Saved(Prefix, IF ~NeedsReset(Cfg, Kind) THEN {}
                     ELSE IF Kind = "image" THEN {"image_used"}
                     ELSE {"video_used"})

\* one pass of the while loop: random.choice(unused), check_content_exists
ProbeCandidate ==
    /\ run.pc = "probe"
    /\ run.attempts < ProbeCap
    /\ run.unused # {}
    /\ \E x \in run.unused : \E ok \in BOOLEAN :
        run' = [run EXCEPT
                  !.attempts = @ + 1,
                  !.tried = Append(@, x),
                  !.answered = IF ok THEN @ \cup {x} ELSE @,
                  !.unused = IF ok THEN @ ELSE AfterFailedProbe(@, x),
                  !.result = IF ok
                             THEN <<[url |-> CandidateUrl(Cfg, Kind, x),
                                     filename |-> x]>>
                             ELSE @,
                  !.pc = IF ok THEN "returned" ELSE "probe"]
    /\ UNCHANGED <<accounts, rotVars, status, pre, schedVars, webVars>>

\* `if not unused: return None`, and the return None after the loop
ReturnNone ==
    /\ run.pc = "probe"
    /\ run.attempts >= ProbeCap \/ run.unused = {}
    /\ run' = [run EXCEPT !.pc = "returned"]
    /\ UNCHANGED <<accounts, rotVars, status, pre, schedVars, webVars>>

ProbeNext == FilterUsed \/ ProbeCandidate \/ ReturnNone

ProbeSpec == ProbeInit /\ [][ProbeNext]_vars

\* C31: one get_random_candidate call issues at most the capped number of
\* probes and probes no candidate twice; what it returns is the candidate of
\* its last probe, which succeeded in this call, never one whose probe
\* failed; and the probes write nothing: the persisted used-set stays what the
\* filter step left, so no failed candidate is added to it.
C31_ProbesBoundedAndDistinct ==
    /\ [](/\ run.attempts <= ProbeCap
          /\ Len(run.tried) = run.attempts
          /\ \A j, k \in DOMAIN run.tried : j # k => run.tried[j] # run.tried[k]
          /\ run.answered \subseteq {run.tried[k] : k \in DOMAIN run.tried}
          /\ run.result # << >> =>
                /\ run.result[1].filename \in run.answered
                /\ run.result[1].filename = run.tried[Len(run.tried)]
                /\ run.pc = "returned"
          /\ UsedOf(Prefix, Kind) \subseteq
                (IF Kind = "image" THEN pre.image_used ELSE pre.video_used)
          /\ run.pc = "returned" =>
                \A k \in DOMAIN run.tried :
                    run.tried[k] \notin run.answered =>
                       /\ run.result # << >> =>
                             run.result[1].filename # run.tried[k]
                       /\ run.tried[k] \notin UsedOf(Prefix, Kind)
                             \/ run.tried[k] \in
                                  (IF Kind = "image" THEN pre.image_used
                                   ELSE pre.video_used))
    /\ [][run.pc = "probe" => UNCHANGED <<rotVars, present, status>>]_vars

\* the call gave up at the cap with candidates left that it never probed
C31_Witness ==
    /\ run.pc = "returned"
    /\ run.attempts = ProbeCap
    /\ run.result = << >>
    /\ run.unused # {}
    /\ run.answered = {}

\* the items of the response a step produced
Listed == {view'.items[k] : k \in DOMAIN view'.items}

\* C32: every item a preview response lists is an entry of the catalog of
\* the account: for a carousel account its filename is img (i).jpg with
\* 1 <= i <= max_images, whatever the page and the stored pointer; for a reel
\* account its filename is in the video catalog, and an item is listed as
\* unused only when it is not in video_used.
C32_PreviewWithinCatalog ==
    [][(view'.n # view.n /\ view'.acct \in DOMAIN accounts) =>
          LET cfg == accounts[view'.acct] IN
          \A it \in Listed :
             /\ cfg.type = "carousel" => it.filename \in ImageCatalog(cfg)
             /\ cfg.type = "reel" =>
                   /\ it.filename \in VideoCatalog(cfg)
                   /\ it.used <=> it.filename \in video_used'[cfg.state_prefix]]_vars

\* ------------------------------------------------- the push threads, by step
\* the "record" of the JsonBin document with no entry
EmptyDoc == [p \in Prefixes |-> NoSnapshot]

\* a push_state_bg(prefix) thread that threading.Thread(...).start() created
\* and that has not run yet. overlap tells whether another push ran while
\* this one was between its first and its last statement
NewPush(prefix) ==
    [pc |-> "start", prefix |-> prefix, state |-> NoSnapshot, r |-> "none",
     full_data |-> EmptyDoc, failed |-> FALSE, overlap |-> FALSE]

Threads == DOMAIN mirror.threads
Running(t) == mirror.threads[t].pc \in {"get", "put"}

\* save_remote_state line 88 without the assignment
KeepFullData(full_data, prefix, state_data) == full_data
\* save_remote_state: full_data[prefix] = state_data
UpdateFullData(full_data, prefix, state_data) ==
    [full_data EXCEPT ![prefix] = state_data]

\* two accounts with their state files written, a configured mirror whose
\* document holds an entry for both or for none, and no push thread yet
SyncInit ==
    /\ accounts = <<RuthlessCfg, ReelCfg>>
    /\ RotInit
    /\ SchedIdle
    /\ present = [p \in Prefixes |->
                    IF \E a \in DOMAIN accounts : accounts[a].state_prefix = p
                    THEN StateFiles ELSE {}]
    /\ \E stored \in BOOLEAN :
        mirror = [configured |-> TRUE,
                  doc |-> [p \in Prefixes |->
                             IF stored /\ p \in {RuthlessCfg.state_prefix,
                                                 ReelCfg.state_prefix}
                             THEN get_full_local_state(p) ELSE NoSnapshot],
                  pushes |-> [p \in Prefixes |-> FALSE],
                  threads |-> << >>]
    /\ view = NoView
    /\ parked = NoThread

\* save_last_index(prefix, key, idx) with sync=True: the file is written and
\* a push_state_bg thread is started
save_last_index(prefix, key, idx) ==
    /\ Len(mirror.threads) < MaxPushes
    /\ IF key = "caption"
       THEN caption_idx' = [caption_idx EXCEPT ![prefix] = idx]
            /\ UNCHANGED image_idx
       ELSE image_idx' = [image_idx EXCEPT ![prefix] = idx]
            /\ UNCHANGED caption_idx
    /\ mirror' = [mirror EXCEPT !.threads = Append(@, NewPush(prefix))]
    /\ UNCHANGED <<accounts, image_used, video_used, status, run, pre,
                   schedVars, present, view, parked>>

\* next_caption(cfg): the caption pointer is loaded and saved one higher
SaveCaptionIndex(a) ==
    LET prefix == accounts[a].state_prefix IN
    /\ caption_idx[prefix] < MaxCaptionIndex
    /\ save_last_index(prefix, "caption",
                       NextCaptionIndex(load_last_index(prefix, "caption")))

\* next_images(cfg): the image pointer is loaded and saved count further
SaveImageIndex(a) ==
    LET cfg == accounts[a] IN
    /\ cfg.type = "carousel"
    /\ save_last_index(cfg.state_prefix, "image",
                       NextImagePointer(load_last_index(cfg.state_prefix, "image"),
                                        cfg.slides_per_post, cfg.max_images))

\* push_state_bg: state = get_full_local_state(prefix), the first statement
\* of the thread
ReadLocalState(t) ==
    LET th == mirror.threads IN
    /\ th[t].pc = "start"
    /\ mirror' =
         [mirror EXCEPT !.threads =
            [u \in Threads |->
               IF u = t
               THEN [th[u] EXCEPT
                       !.pc = "get",
                       !.state = get_full_local_state(th[u].prefix),
                       !.overlap = \E v \in Threads : Running(v)]
               ELSE IF Running(u) THEN [th[u] EXCEPT !.overlap = TRUE]
               ELSE th[u]]]
    /\ UNCHANGED <<accounts, rotVars, status, run, pre, schedVars, present,
                   view, parked>>

\* save_remote_state: requests.get of the whole document; status 200 gives
\* its record, another status an empty dict, an exception ends the thread
GetResponses == {"200", "other", "exception"}

GetDocument(t, r) ==
    /\ mirror.threads[t].pc = "get"
    /\ mirror' =
         [mirror EXCEPT
            !.threads[t] =
               [@ EXCEPT !.pc = IF r = "exception" THEN "done" ELSE "put",
                         !.r = r,
                         !.failed = r = "exception",
                         !.full_data = IF r = "200" THEN mirror.doc
                                       ELSE EmptyDoc]]
    /\ UNCHANGED <<accounts, rotVars, status, run, pre, schedVars, present,
                   view, parked>>

\* save_remote_state: full_data[prefix] = state_data and requests.put of the
\* whole document, which replaces the bin when it is accepted
PutDocument(t, accepted) ==
    LET th == mirror.threads[t] IN
    /\ th.pc = "put"
    /\ mirror' =
         [mirror EXCEPT
            !.threads[t] = [@ EXCEPT !.pc = "done", !.failed = ~accepted],
            !.doc = IF accepted
                    THEN UpdateFullData(th.full_data, th.prefix, th.state)
                    ELSE @]
    /\ UNCHANGED <<accounts, rotVars, status, run, pre, schedVars, present,
                   view, parked>>

SyncNext ==
    \/ \E a \in DOMAIN accounts : SaveCaptionIndex(a)
    \/ \E a \in DOMAIN accounts : SaveImageIndex(a)
    \/ \E t \in Threads : ReadLocalState(t)
    \/ \E t \in Threads : \E r \in GetResponses : GetDocument(t, r)
    \/ \E t \in Threads : \E accepted \in BOOLEAN : PutDocument(t, accepted)

SyncSpec == SyncInit /\ [][SyncNext]_vars

\* every push thread has ended, none on an exception or a rejected write
PushesCompleted ==
    \A t \in Threads :
        mirror.threads[t].pc = "done" /\ ~mirror.threads[t].failed

\* C33: once every push thread started by the writes of one account has
\* completed without a failure and no write is pending, the entry of the
\* prefix in the mirror equals the local rotation state of the account,
\* whatever the interleaving of the threads was.
C33_MirrorEventuallyConsistent ==
    \A a \in DOMAIN accounts :
       LET prefix == accounts[a].state_prefix IN
       (/\ Threads # {}
        /\ PushesCompleted
        /\ \A t \in Threads : mirror.threads[t].prefix = prefix)
       => mirror.doc[prefix] = get_full_local_state(prefix)

\* thread t makes its requests.put in this step
PutStep(t) ==
    /\ t \in Threads
    /\ mirror.threads[t].pc = "put"
    /\ mirror'.threads[t].pc = "done"

\* C34: a push for a prefix that ran with no other push concurrent leaves
\* every other prefix's entry of the document present with the value it
\* had, whatever the read of the document answered.
C34_PushKeepsOtherEntries ==
    [][\A t \in Threads :
          (PutStep(t) /\ ~mirror.threads[t].overlap) =>
             \A q \in Prefixes \ {mirror.threads[t].prefix} :
                mirror'.doc[q] = mirror.doc[q]]_vars

\* thread t ends in this step with an accepted write
PutAccepted(t) == PutStep(t) /\ ~mirror'.threads[t].failed

\* C35: a push thread never touches the local state files, and its accepted
\* write replaces the whole document by the document it read earlier with
\* its own entry set, so that of two pushes for different prefixes that both
\* read and then both write, the first one's entry is lost.
C35_PushesNotAtomic ==
    [][\A t \in Threads :
          /\ mirror'.threads # mirror.threads /\ Len(mirror'.threads) = Len(mirror.threads)
               => UNCHANGED <<rotVars, present>>
          /\ PutAccepted(t) =>
               /\ mirror'.doc[mirror.threads[t].prefix] = mirror.threads[t].state
               /\ \A q \in Prefixes \ {mirror.threads[t].prefix} :
                     mirror'.doc[q] = mirror.threads[t].full_data[q]]_vars

\* two pushes for different prefixes both read the document with status 200
\* before either wrote, both writes were accepted, and the entry one of them
\* wrote is not in the document, while the files of both accounts still hold
\* what the threads read
C35_Witness ==
    \E t, u \in Threads :
       LET x == mirror.threads[t]
           y == mirror.threads[u] IN
       /\ x.prefix # y.prefix
       /\ x.pc = "done" /\ y.pc = "done"
       /\ ~x.failed /\ ~y.failed
       /\ x.r = "200" /\ y.r = "200"
       /\ x.full_data = y.full_data
       /\ mirror.doc[x.prefix] # x.state
       /\ mirror.doc[y.prefix] = y.state
       /\ get_full_local_state(x.prefix) = x.state
       /\ get_full_local_state(y.prefix) = y.state

\* ------------------------------------- runs of one account, run concurrently
\* a deployment with one carousel account whose state files exist, no mirror
OverlapInit ==
    /\ accounts = <<RuthlessCfg>>
    /\ RotInit
    /\ SchedIdle
    /\ present = [p \in Prefixes |->
                    IF p = RuthlessCfg.state_prefix THEN StateFiles ELSE {}]
    /\ mirror = NoMirror
    /\ view = NoView
    /\ parked = NoThread

\* the thread that steps is descheduled at a file or network operation and
\* the other thread of the process goes on
Preempt ==
    /\ run.pc \in {"idle", "select", "select_save", "caption", "caption_save",
                 "upload", "done"}
    /\ run.pc # "idle" \/ parked.run.pc # "idle"
    /\ run' = parked.run
    /\ pre' = parked.pre
    /\ parked' = [run |-> run, pre |-> pre]
    /\ UNCHANGED <<accounts, rotVars, status, schedVars, present, mirror, view>>

\* next_images: last = load_last_index(cfg["state_prefix"], "image")
NextImagesLoad ==
    /\ run.pc = "select" /\ run.task = "run_account"
    /\ Cfg.type = "carousel" /\ run.mode = "manual"
    /\ run' = [last |-> load_last_index(Prefix, "image")]
                 @@ [run EXCEPT !.pc = "select_save"]
    /\ UNCHANGED <<accounts, rotVars, status, pre, schedVars, webVars>>

\* next_images: the urls are built from last and save_last_index stores
\* (last + count - 1) % max_images + 1
NextImagesSave ==
    /\ run.pc = "select_save"
    /\ run' = [run EXCEPT !.pc = "caption", !.imgs = next_images(Cfg, run.last)]
    /\ image_idx' = [image_idx EXCEPT ![Prefix] =
                        NextImagePointer(run.last, Cfg.slides_per_post,
                                         Cfg.max_images)]
    /\ UNCHANGED <<accounts, caption_idx, image_used, video_used, status, pre,
                   schedVars, view, parked>>
    /\ Saved(Prefix, {"image_idx"})

\* next_caption: lines = fetch_lines(...) returned K lines and
\* idx = load_last_index(cfg["state_prefix"], "caption")
NextCaptionLoad ==
    /\ run.pc = "caption" /\ run.task = "run_account"
    /\ caption_idx[Prefix] < MaxCaptionIndex
    /\ \E K \in 1..MaxLines :
        run' = [idx |-> load_last_index(Prefix, "caption")]
                  @@ [run EXCEPT !.pc = "caption_save", !.lines = K]
    /\ UNCHANGED <<accounts, rotVars, status, pre, schedVars, webVars>>

\* a save that re-reads the file and stores one more than it holds now
SavedCaptionIndexFresh(idx, stored) == NextCaptionIndex(stored)
\* next_caption: save_last_index(cfg["state_prefix"], "caption", idx + 1)
SavedCaptionIndex(idx, stored) == NextCaptionIndex(idx)

\* next_caption: caption = lines[idx % len(lines)], then the save
NextCaptionSave ==
    /\ run.pc = "caption_save"
    /\ run' = [run EXCEPT !.pc = AfterCaption,
                          !.cap = CaptionAt(run.idx, run.lines)]
    /\ caption_idx' = [caption_idx EXCEPT ![Prefix] =
                          SavedCaptionIndex(run.idx, caption_idx[Prefix])]
    /\ UNCHANGED <<accounts, image_idx, image_used, video_used, status, pre,
                   schedVars, view, parked>>
    /\ Saved(Prefix, {"caption_idx"})

\* POST /run/<idx> and the scheduler start threads of the account whatever
\* other thread of it is running; two threads are followed through content
\* selection and next_caption, up to their first upload
OverlapNext ==
    \/ \E a \in DOMAIN accounts : RunNow(a)
    \/ \E a \in DOMAIN accounts : ScheduledRun(a)
    \/ Preempt
    \/ NextImagesLoad
    \/ NextImagesSave
    \/ DrawRandomImage
    \/ FinishDraws
    \/ NextCaptionLoad
    \/ NextCaptionSave

OverlapSpec == OverlapInit /\ [][OverlapNext]_vars

\* the thread that steps returns from next_images / next_caption
ImagesSaved == run.pc = "select_save" /\ parked' = parked
CaptionSaved == run.pc = "caption_save" /\ parked' = parked

\* C36: nothing serialises the runs of one account: a thread saves the
\* pointers it computed from the values it loaded, whatever another thread
\* of the account stored in between, so two manual runs that load the same
\* image_index and caption_index select the same images and caption and
\* leave each pointer advanced once.
C36_RunsOverwritePointers ==
    [][/\ ImagesSaved =>
            /\ run'.imgs = next_images(Cfg, run.last)
            /\ image_idx'[Prefix] =
                  NextImagePointer(run.last, Cfg.slides_per_post, Cfg.max_images)
       /\ CaptionSaved =>
            /\ run'.cap = CaptionAt(run.idx, run.lines)
            /\ caption_idx'[Prefix] = NextCaptionIndex(run.idx)]_vars

\* two manual runs of the account have both finished their selection from
\* the same pointers: same images, same caption, each pointer moved once
C36_Witness ==
    /\ run.pc = "upload" /\ parked.run.pc = "upload"
    /\ run.mode = "manual" /\ parked.run.mode = "manual"
    /\ run.acct = parked.run.acct
    /\ run.last = parked.run.last /\ run.idx = parked.run.idx
    /\ run.imgs = parked.run.imgs /\ run.imgs # << >>
    /\ run.cap = parked.run.cap
    /\ image_idx[Prefix] =
          NextImagePointer(run.last, Cfg.slides_per_post, Cfg.max_images)
    /\ caption_idx[Prefix] = NextCaptionIndex(run.idx)

\* a write of a used-set in this step keeps every stored name, or empties a
\* set that held the whole catalog
GrowsOrResets(used, used_after, catalog) ==
    \/ used \subseteq used_after
    \/ used_after = {} /\ catalog \subseteq used

PastCaption ==
    /\ run.task = "run_account"
    /\ run.pc \notin {"idle", "select", "caption"}
    /\ run.pc = "done" =>
          run.failed \notin {"caption", "No content available",
                             "No random images available."}

\* a run_account run that ended during content selection
FailedInSelection ==
    /\ run.task = "run_account" /\ run.pc = "done"
    /\ run.failed \in {"No content available", "No random images available."}

\* C38: in manual and in schedule mode alike, a run_account run that got
\* past content selection and has its caption holds the line at
\* caption_index mod K of the K lines fetched, caption_index being the value
\* stored when the run started, and the stored caption_index is one higher;
\* a run that failed during content selection left caption_index as it was.
C38_CaptionIsSequential ==
    /\ PastCaption =>
          /\ run.lines >= 1
          /\ run.cap = Lines(run.lines)[(pre.caption_index % run.lines) + 1]
          /\ caption_idx[Prefix] = pre.caption_index + 1
    /\ FailedInSelection => caption_idx[Prefix] = pre.caption_index

\* a scheduled run took its caption after the pointer had passed the end of
\* the list
C38_Witness ==
    /\ PastCaption
    /\ run.mode = "schedule"
    /\ pre.caption_index >= run.lines
    /\ caption_idx[Prefix] = pre.caption_index + 1

\* a run_account run of a carousel account in schedule mode
ScheduledCarousel ==
    run.task = "run_account" /\ run.mode = "schedule" /\ Cfg.type = "carousel"

Distinct(s) == \A i, j \in DOMAIN s : s[i] = s[j] => i = j

\* C39: the carousel a schedule-mode run uploads is made of pairwise
\* distinct image URLs, at least 1 and at most slides_per_post of them: the
\* URLs drawn are kept once each, which can leave fewer slides than
\* configured, and a run none of whose draws returned a candidate ends in
\* error without any upload.
C39_CarouselSlidesDistinct ==
    /\ [](ScheduledCarousel =>
            /\ run.pc \notin {"idle", "select"} /\ run.failed # "No random images available."
                 => /\ Distinct(run.imgs)
                    /\ Len(run.imgs) \in 1..Cfg.slides_per_post
            /\ Len(run.child_ids) <= Len(run.imgs)
            /\ run.failed = "No random images available."
                 => run.imgs = << >> /\ run.api = 0 /\ run.child_ids = << >>)
    /\ [][(ScheduledCarousel /\ run.pc = "select" /\ run'.pc = "caption") =>
            /\ {run'.imgs[k] : k \in DOMAIN run'.imgs}
                  = {run.imgs[k] : k \in DOMAIN run.imgs}
            /\ Len(run.imgs) <= Cfg.slides_per_post]_vars

\* a scheduled run published a carousel of fewer slides than configured
C39_Witness ==
    /\ ScheduledCarousel
    /\ run.pc = "done" /\ run.failed = "none"
    /\ run.draws = Cfg.slides_per_post
    /\ Len(run.imgs) = 1 /\ Cfg.slides_per_post = 2
    /\ Len(run.child_ids) = 1

\* a manual run_account run of a reel account that holds its video
ManualReelSelected ==
    /\ run.task = "run_account" /\ run.mode = "manual" /\ Cfg.type = "reel"
    /\ run.pc \notin {"idle", "select"}
    /\ run.failed # "No content available"

\* the positions of the catalog whose file is not in used
UnusedAt(cfg, used) ==
    {k \in DOMAIN VideoCatalogSeq(cfg) : VideoCatalogSeq(cfg)[k] \notin used}

\* the URL of the first file of the catalog, in catalog order, not in used
FirstUnusedUrl(cfg, used) ==
    VideoUrl(cfg, VideoCatalogSeq(cfg)[
        CHOOSE k \in UnusedAt(cfg, used) : \A j \in UnusedAt(cfg, used) : k <= j])

\* C40: a manual-mode run of a reel account selects the first entry of the
\* video catalog, in catalog order, that is not in video_used, and no step
\* of a manual-mode run adds to video_used; from its selection to its end,
\* in success or in error, the video the run holds is therefore the one a
\* manual run started next selects.
C40_ManualReelRepeats ==
    /\ [](ManualReelSelected =>
            /\ UnusedAt(Cfg, video_used[Prefix]) # {}
            /\ run.vid = FirstUnusedUrl(Cfg, video_used[Prefix]))
    /\ [][(run.task = "run_account" /\ run.mode = "manual") =>
            video_used'[Prefix] \subseteq video_used[Prefix]]_vars
    /\ [][(run.pc = "select" /\ run.task = "run_account" /\ run.mode = "manual"
           /\ Cfg.type = "reel" /\ run'.pc = "caption") =>
            run'.vid = FirstUnusedUrl(Cfg,
                          IF UnusedAt(Cfg, video_used[Prefix]) = {} THEN {}
                          ELSE video_used[Prefix])]_vars

\* a manual reel run that failed after its selection holds the second file
\* of the catalog, the first being used; the next manual run finds
\* video_used as it is
C40_Witness ==
    /\ ManualReelSelected
    /\ run.pc = "done" /\ run.failed \in {"upload", "verify", "publish"}
    /\ video_used[Prefix] = {VideoName(0)}
    /\ run.vid = VideoUrl(Cfg, VideoName(1))

====
